---- MODULE Spec2Model ----
(***************************************************************************)
(* Model of fakecam's process supervision (utils/process_manager.py):      *)
(* ManagedProcess handles with their per-handle lock, the OS processes     *)
(* they launch, and the ProcessRegistry, driven by concurrent threads;     *)
(* and of its device setup (core/device_setup.py): the video and audio     *)
(* device managers, the DeviceManager over them, and the kernel module,    *)
(* device node and PulseAudio sinks they load and release.                 *)
(***************************************************************************)
EXTENDS Integers, Sequences, FiniteSets, TLC

\* ---- bounds ----
MaxProcs == 2                 \* OS processes that can be launched in one run
MaxSinks == 2                 \* null-sink modules PulseAudio can hold at once

\* the two ManagedProcess instances the application creates
\* (core/video_manager.py:117, core/audio_manager.py:183)
Handles == {"VideoStream", "AudioStream"}
\* the GUI main thread and one background task thread (gui/main_window.py:1000)
Threads == {"main", "worker"}
\* the registry is called from the managers' constructors and from cleanup,
\* both on the main thread (core/video_manager.py:123, gui/main_window.py:1311)
RegistryCallers == {"main"}
Procs == 1..MaxProcs          \* identities (pids) of launched processes

\* ---- ProcessState (utils/config.py) ----
STOPPED == "stopped"
STARTING == "starting"
RUNNING == "running"
STOPPING == "stopping"
ERROR == "error"
ProcessState == {STOPPED, STARTING, RUNNING, STOPPING, ERROR}

NoProc == 0                   \* self.proc is None / self._pid is None
NoThread == "nobody"          \* a threading.Lock that is not held
NoHandle == "nohandle"
NoOp == "noop"

VARIABLES
    state,      \* state[h]     ManagedProcess.state
    proc,       \* proc[h]      ManagedProcess.proc (NoProc or the process)
    pid,        \* pid[h]       ManagedProcess._pid
    lock,       \* lock[h]      holder of ManagedProcess.lock
    os,         \* os[p]        "unborn" | "alive" | "dead": the OS's view
    owner,      \* owner[p]     handle whose start() launched p
    sig,        \* sig[h]       "none" | "term" | "kill": last signal h sent to
                \*              the process object it holds in proc
    processes,  \* ProcessRegistry.processes (a list)
    regLock,    \* holder of ProcessRegistry.lock
    pc,         \* pc[t]        position of thread t inside its current call
    op,         \* op[t]        the call thread t is in
    tgt,        \* tgt[t]       handle the call is on
    entry,      \* entry[t]     handle state found by the step that returned
                \*              (register/unregister: was the handle in the list)
    ret,        \* ret[t]       "none" | "true" | "false" | "raise" | "value"
    val,        \* val[t]       numeric result (pid or count)
    mine,       \* mine[t]      process launched by t's current start()
    todo,       \* todo[t]      rest of the snapshot a registry loop walks
    swept,      \* <<handle, result>> of each stop() the current sweep has made
    lateStart,  \* a start() took a handle lock while the sweep was running
    \* -- the system the device managers act on --
    missing,    \* external tools that are not installed
    modloaded,  \* the v4l2loopback kernel module is loaded
    devnode,    \* /dev/video10 exists and is a character device
    sinkIds,    \* ids of the loaded module-null-sink instances named fakemic
    \* -- DeviceManager --
    is_setup,   \* is_setup[g]  VideoDeviceManager / AudioDeviceManager.is_setup
    module_id,  \* AudioDeviceManager.module_id
    frame,      \* frame[t]     the DeviceManager call thread t is in: position,
                \*              locals, result, and what the call has done so far
    lastres,    \* lastres[g]   how the last finished call on guard g ended
    lastcount,  \* lastcount[g] instances loaded when g's last Setup succeeded
    \* -- VideoManager, AudioManager, TTSManager --
    ctl,        \* ctl[c]       stream controller c: its handle's state and
                \*              process, current_source, _is_silence_mode
    files,      \* the files that exist in Config.VIDEO_DIR and AUDIO_DIR
    available,  \* TTSManager._available_engines
    last        \* the last call on a controller or on the TTSManager: what
                \*              was asked, what it did and how it ended

hvars == <<state, proc, pid, lock>>
osvars == <<os, owner, sig>>
rvars == <<processes, regLock>>
tvars == <<pc, op, tgt, entry, ret, val, mine, todo>>
gvars == <<swept, lateStart>>
pvars == <<hvars, osvars, rvars, tvars, gvars>>
envvars == <<missing, modloaded, devnode, sinkIds>>
mvars == <<is_setup, module_id>>
dgvars == <<lastres, lastcount>>
dvars == <<envvars, mvars, frame, dgvars>>
svars == <<ctl, files, available, last>>
vars == <<state, proc, pid, lock, os, owner, sig, processes, regLock,
          pc, op, tgt, entry, ret, val, mine, todo, swept, lateStart,
          missing, modloaded, devnode, sinkIds, is_setup, module_id,
          frame, lastres, lastcount, ctl, files, available, last>>

\* ---- ManagedProcess.__init__ / ProcessRegistry.__init__ ----
\* every handle freshly constructed, no thread in a call, registry = reg
InitProcesses(reg) ==
    /\ state = [h \in Handles |-> STOPPED]
    /\ proc = [h \in Handles |-> NoProc]
    /\ pid = [h \in Handles |-> NoProc]
    /\ lock = [h \in Handles |-> NoThread]
    /\ os = [p \in Procs |-> "unborn"]
    /\ owner = [p \in Procs |-> NoHandle]
    /\ sig = [h \in Handles |-> "none"]
    /\ processes = reg
    /\ regLock = NoThread
    /\ pc = [t \in Threads |-> "idle"]
    /\ op = [t \in Threads |-> NoOp]
    /\ tgt = [t \in Threads |-> NoHandle]
    /\ entry = [t \in Threads |-> "none"]
    /\ ret = [t \in Threads |-> "none"]
    /\ val = [t \in Threads |-> 0]
    /\ mine = [t \in Threads |-> NoProc]
    /\ todo = [t \in Threads |-> <<>>]
    /\ swept = <<>>
    /\ lateStart = FALSE

\* ---- device setup: constants (core/device_setup.py, utils/config.py) ----
\* the two guards a DeviceManager owns: self.video, self.audio
Guards == {"video", "audio"}
\* the external tools whose absence the managers meet as FileNotFoundError:
\* sudo (in front of modprobe, pkill and chmod), lsmod and pactl
Tools == {"sudo", "lsmod", "pactl"}
MAX_CLEANUP_RETRIES == 3      \* Config.MAX_CLEANUP_RETRIES
NoModule == 0                 \* AudioDeviceManager.module_id is None
SinkIdSet == 1..MaxSinks      \* module ids PulseAudio hands out
\* the thread that drives setup and teardown
Supervisor == {"worker"}

\* DeviceManager.get_status before anything was asked
NoStatus ==
    [video_device_exists |-> FALSE, video_module_loaded |-> FALSE,
     video_setup |-> FALSE, audio_sink_loaded |-> FALSE, audio_setup |-> FALSE]

\* a thread that is in no DeviceManager call
\*   pc, op          position in the call, and the call
\*   attempt         the unload loop's counter
\*   ids             module ids cleanup_existing_sinks still has to unload
\*   video_ok, audio_ok   locals of setup_all / teardown_all
\*   ret             "none" | "pair" | "true" | "false" | "status" | "raise"
\*   status          the dictionary get_status returns
\*   rc              outcome of the last external tool the call ran
\*   ran             phases the call has executed
\*   res             res[g]: how the call's Setup of guard g ended
\*   exhausted       the unload loop used up all its attempts on "in use"
\*   clean           every installed tool the call ran so far worked
\*   fresh           no call on either guard had finished when the call began
IdleFrame ==
    [pc |-> "idle", op |-> NoOp, attempt |-> 0, ids |-> <<>>,
     video_ok |-> FALSE, audio_ok |-> FALSE, ret |-> "none",
     status |-> NoStatus, rc |-> "none", ran |-> {},
     res |-> [g \in Guards |-> "none"], exhausted |-> FALSE,
     clean |-> TRUE, fresh |-> FALSE]

\* ---- VideoDeviceManager / AudioDeviceManager / DeviceManager.__init__ ----
\* m: the tools that are not installed; loaded: v4l2loopback is already
\* loaded (with its device node) when the application starts
InitDeviceManager(m, loaded) ==
    /\ missing = m
    /\ modloaded = loaded
    /\ devnode = loaded
    /\ sinkIds = {}
    /\ is_setup = [g \in Guards |-> FALSE]
    /\ module_id = NoModule
    /\ frame = [t \in Threads |-> IdleFrame]
    /\ lastres = [g \in Guards |-> "none"]
    /\ lastcount = [g \in Guards |-> 0]

\* ---- stream controllers: constants (core/video_manager.py,
\* core/audio_manager.py, utils/tts_engines.py, utils/config.py) ----
Controllers == {"video", "audio"}
NoSource == "None"            \* current_source is None
NoEngine == "None"            \* get_best_engine returns None
NotProbed == {"unprobed"}     \* _available_engines is None
FALLBACK == "Fallback (Blue Screen)"

\* no call has been made, or the system moved since the last one
\*   c, op, source   the object, the method and the source name it was given
\*   ret             "true" | "false" | the engine returned | the error raised
\*   cmds            the commands handed to subprocess.Popen, in order
\*   ran             the external steps the call ran
\*   stopped         what ManagedProcess.stop returned, if it was called
\*   asked           the source name restart() handed to start()
\*   absent          the backing file was missing when start() looked
\*   enh             "none" | "ok" | "failed": how the enhancement step went
NoCall ==
    [c |-> "none", op |-> NoOp, source |-> NoSource, ret |-> "none",
     cmds |-> <<>>, ran |-> {}, stopped |-> "none", asked |-> NoSource,
     absent |-> FALSE, enh |-> "none"]

\* ---- VideoManager / AudioManager / TTSManager.__init__ ----
\* fs: the files left in the video and audio directories by earlier runs
InitStreams(fs) ==
    /\ ctl = [c \in Controllers |->
                [state |-> STOPPED, proc |-> "none", current_source |-> NoSource,
                 is_silence_mode |-> FALSE]]
    /\ files = fs
    /\ available = NotProbed
    /\ last = NoCall

InitWith(reg) == InitProcesses(reg) /\ InitDeviceManager({}, FALSE) /\ InitStreams({})

\* the application once FakeCamGUI.__init__ has built its two managers, each
\* of which registers its handle (gui/main_window.py:169-170)
Init == InitWith(<<"VideoStream", "AudioStream">>)

\* a registry nothing has been registered with yet
InitRegistry == InitWith(<<>>)

\* ---- helpers ----
\* ManagedProcess._is_alive: proc is not None and proc.poll() is None
IsAlive(h) == proc[h] # NoProc /\ os[proc[h]] = "alive"

\* is_running that trusts the recorded state and skips the liveness probe
IsRunning_StateOnly(h) == state[h] = RUNNING

\* ManagedProcess.is_running (the expression evaluated under the lock)
IsRunning(h) == state[h] = RUNNING /\ IsAlive(h)

\* ManagedProcess.get_pid (the expression evaluated under the lock)
GetPid(h) == IF IsAlive(h) THEN pid[h] ELSE NoProc

\* a precondition test that asks is_running instead of the recorded state
AlreadyRunning_Probe(h) == state[h] = RUNNING /\ IsAlive(h)

\* start()'s precondition test: self.state == ProcessState.RUNNING
AlreadyRunning(h) == state[h] = RUNNING

\* the process the next successful Popen creates
NextProc == CHOOSE p \in Procs : os[p] = "unborn" /\ \A q \in Procs : os[q] = "unborn" => p <= q
CanLaunch == \E p \in Procs : os[p] = "unborn"

Bool(b) == IF b THEN "true" ELSE "false"

\* a start() entering its first critical section during a registry sweep
SweepRunning == \E t \in Threads : op[t] = "stop_all" /\ pc[t] # "done"

\* the call of thread t returns r (numeric result v)
Returns(t, r, v, found) ==
    /\ pc' = [pc EXCEPT ![t] = "done"]
    /\ entry' = [entry EXCEPT ![t] = found]
    /\ ret' = [ret EXCEPT ![t] = r]
    /\ val' = [val EXCEPT ![t] = v]

\* A returned call hands its result to the caller before anything else moves.
\* Return only clears the caller's own bookkeeping, so it commutes with every
\* other step and no interleaving of the program is lost.
NoResultPending == \A t \in Threads : pc[t] # "done"

Enters(t, o, h) ==
    /\ NoResultPending
    /\ pc[t] = "idle"
    /\ op' = [op EXCEPT ![t] = o]
    /\ tgt' = [tgt EXCEPT ![t] = h]

\* ---- ManagedProcess.start, first critical section (lines 62-90) ----
\* popen: "ok" | "notfound" | "denied" | "oserror"
StartLaunch(t, h, popen) ==
    /\ UNCHANGED <<dvars, svars>>
    /\ Enters(t, "start", h)
    /\ lock[h] = NoThread
    /\ lateStart' = (lateStart \/ SweepRunning)
    /\ UNCHANGED <<lock, rvars, todo, swept>>
    /\ IF AlreadyRunning(h)
       THEN /\ Returns(t, "raise", 0, state[h])
            /\ UNCHANGED <<state, proc, pid, osvars, mine>>
       ELSE IF popen = "ok"
       THEN /\ CanLaunch
            /\ state' = [state EXCEPT ![h] = STARTING]
            /\ proc' = [proc EXCEPT ![h] = NextProc]
            /\ pid' = [pid EXCEPT ![h] = NextProc]
            /\ os' = [os EXCEPT ![NextProc] = "alive"]
            /\ owner' = [owner EXCEPT ![NextProc] = h]
            /\ sig' = [sig EXCEPT ![h] = "none"]
            /\ mine' = [mine EXCEPT ![t] = NextProc]
            /\ pc' = [pc EXCEPT ![t] = "settle"]
            /\ UNCHANGED <<ret, val, entry>>
       ELSE /\ state' = [state EXCEPT ![h] = ERROR]
            /\ Returns(t, "false", 0, state[h])
            /\ UNCHANGED <<proc, pid, osvars, mine>>

\* ---- ManagedProcess.start, after the settle delay (lines 93-104) ----
StartVerify(t) ==
    /\ UNCHANGED <<dvars, svars>>
    /\ NoResultPending
    /\ pc[t] = "settle"
    /\ lock[tgt[t]] = NoThread
    /\ IF IsAlive(tgt[t])
       THEN /\ state' = [state EXCEPT ![tgt[t]] = RUNNING]
            /\ UNCHANGED <<proc, sig>>
            /\ Returns(t, "true", 0, state[tgt[t]])
       ELSE /\ state' = [state EXCEPT ![tgt[t]] = ERROR]
            /\ proc' = [proc EXCEPT ![tgt[t]] = NoProc]
            /\ sig' = [sig EXCEPT ![tgt[t]] = "none"]
            /\ Returns(t, "false", 0, state[tgt[t]])
    /\ UNCHANGED <<pid, lock, os, owner, rvars, op, tgt, mine, todo, gvars>>

\* ---- ManagedProcess.stop (lines 106-150) ----
\* the handle stop() is working on: the call's own, or the sweep's current one
CurH(t) == IF op[t] = "stop_all" THEN Head(todo[t]) ELSE tgt[t]

\* a sweep that gives up at the first stop() reporting failure
SweepRest_ShortCircuit(rest, r) == IF r = "false" THEN <<>> ELSE Tail(rest)

\* stop_all's loop goes on to the next handle of the snapshot whatever the
\* stop() of this one did (try/except around proc.stop())
SweepRest(rest, r) == Tail(rest)

\* stop() returns r on handle h: to its caller, or back into stop_all's loop
StopReturns(t, h, r, inSweep) ==
    IF inSweep
    THEN /\ pc' = [pc EXCEPT ![t] = "sweep"]
         /\ todo' = [todo EXCEPT ![t] = SweepRest(todo[t], r)]
         /\ swept' = Append(swept, <<h, r>>)
         /\ UNCHANGED <<ret, val, entry, lateStart>>
    ELSE /\ Returns(t, r, 0, state[h])
         /\ UNCHANGED <<todo, gvars>>

\* a cleanup that releases the native handle but forgets the state
StopFinally_NoState(h) ==
    /\ proc' = [proc EXCEPT ![h] = NoProc]
    /\ pid' = [pid EXCEPT ![h] = NoProc]
    /\ state' = state
    /\ lock' = [lock EXCEPT ![h] = NoThread]
    /\ sig' = [sig EXCEPT ![h] = "none"]

\* the finally clause of stop(): lines 144-148, then the lock is released
StopFinally(h) ==
    /\ proc' = [proc EXCEPT ![h] = NoProc]
    /\ pid' = [pid EXCEPT ![h] = NoProc]
    /\ state' = [state EXCEPT ![h] = STOPPED]
    /\ lock' = [lock EXCEPT ![h] = NoThread]
    /\ sig' = [sig EXCEPT ![h] = "none"]

\* an early return that reports the already stopped handle as a failure
StopAlreadyStopped_ReportsFalse(t, h, inSweep) ==
    /\ state[h] = STOPPED
    /\ StopReturns(t, h, "false", inSweep)
    /\ UNCHANGED <<hvars, osvars>>

\* stop() on a handle that is already STOPPED: lines 114-116
StopAlreadyStopped(t, h, inSweep) ==
    /\ state[h] = STOPPED
    /\ StopReturns(t, h, "true", inSweep)
    /\ UNCHANGED <<hvars, osvars>>

\* stop() entered: lines 113-127.  termRaises: proc.terminate() raises
StopBody(t, h, inSweep, termRaises) ==
    /\ UNCHANGED <<dvars, svars>>
    /\ lock[h] = NoThread
    /\ UNCHANGED <<rvars, mine>>
    /\ \/ StopAlreadyStopped(t, h, inSweep)
       \/ /\ state[h] # STOPPED
          /\ proc[h] = NoProc
          /\ state' = [state EXCEPT ![h] = STOPPED]
          /\ StopReturns(t, h, "true", inSweep)
          /\ UNCHANGED <<proc, pid, lock, osvars>>
       \/ /\ state[h] # STOPPED
          /\ proc[h] # NoProc
          /\ IF termRaises
             THEN /\ StopFinally(h)
                  /\ StopReturns(t, h, "false", inSweep)
                  /\ UNCHANGED <<os, owner>>
             ELSE /\ state' = [state EXCEPT ![h] = STOPPING]
                  /\ lock' = [lock EXCEPT ![h] = t]
                  /\ sig' = [sig EXCEPT ![h] = "term"]
                  /\ pc' = [pc EXCEPT ![t] = "stop_wait"]
                  /\ UNCHANGED <<proc, pid, os, owner, ret, val, entry, todo, gvars>>

StopCall(t, h, termRaises) ==
    /\ Enters(t, "stop", h)
    /\ StopBody(t, h, FALSE, termRaises)

\* an escalation that does not look whether the process has exited
GracefulWaitTimedOut_Always(h) == TRUE

\* proc.wait(timeout=PROCESS_STOP_TIMEOUT) raises TimeoutExpired: the process
\* terminate() was sent to has not exited when the timeout ends (lines 128-132)
GracefulWaitTimedOut(h) == os[proc[h]] = "alive"

\* a stop() that takes the kill for granted
KillConfirmed_Assumed(h) == TRUE

\* proc.wait(timeout=1) after kill() returns: the process has exited
\* (lines 135-139)
KillConfirmed(h) == os[proc[h]] # "alive"

\* proc.wait(timeout=PROCESS_STOP_TIMEOUT): lines 128-134
\* the process has exited, or the wait times out and kill() is sent
StopWait(t, killRaises) ==
    /\ UNCHANGED <<dvars, svars>>
    /\ NoResultPending
    /\ pc[t] = "stop_wait"
    /\ lock[CurH(t)] = t
    /\ UNCHANGED <<rvars, op, tgt, mine>>
    /\ IF ~GracefulWaitTimedOut(CurH(t))
       THEN /\ StopFinally(CurH(t))
            /\ StopReturns(t, CurH(t), "true", op[t] = "stop_all")
            /\ UNCHANGED <<os, owner>>
       ELSE IF killRaises
       THEN /\ StopFinally(CurH(t))
            /\ StopReturns(t, CurH(t), "false", op[t] = "stop_all")
            /\ UNCHANGED <<os, owner>>
       ELSE /\ sig' = [sig EXCEPT ![CurH(t)] = "kill"]
            /\ pc' = [pc EXCEPT ![t] = "stop_kill"]
            /\ UNCHANGED <<hvars, os, owner, ret, val, entry, todo, gvars>>

\* proc.wait(timeout=1) after kill(): lines 135-139, then finally
StopKillWait(t) ==
    /\ UNCHANGED <<dvars, svars>>
    /\ NoResultPending
    /\ pc[t] = "stop_kill"
    /\ lock[CurH(t)] = t
    /\ UNCHANGED <<rvars, os, owner, op, tgt, mine>>
    /\ StopFinally(CurH(t))
    /\ StopReturns(t, CurH(t), Bool(KillConfirmed(CurH(t))), op[t] = "stop_all")

\* ---- ProcessRegistry.register / unregister (lines 170-192) ----
Remove(s, h) == SelectSeq(s, LAMBDA x : x # h)
InList(s, h) == \E i \in 1..Len(s) : s[i] = h

\* a register that appends without looking
Registered_Blind(s, h) == Append(s, h)

\* register: if process not in self.processes: self.processes.append(process)
Registered_With(s, h) == IF InList(s, h) THEN s ELSE Append(s, h)

\* unregister: if process in self.processes: self.processes.remove(process)
Registered_Without(s, h) == IF InList(s, h) THEN Remove(s, h) ELSE s

Register(t, h) ==
    /\ UNCHANGED <<dvars, svars>>
    /\ Enters(t, "register", h)
    /\ regLock = NoThread
    /\ processes' = Registered_With(processes, h)
    /\ Returns(t, "none", 0, Bool(InList(processes, h)))
    /\ UNCHANGED <<hvars, osvars, regLock, mine, todo, gvars>>

Unregister(t, h) ==
    /\ UNCHANGED <<dvars, svars>>
    /\ Enters(t, "unregister", h)
    /\ regLock = NoThread
    /\ processes' = Registered_Without(processes, h)
    /\ Returns(t, "none", 0, Bool(InList(processes, h)))
    /\ UNCHANGED <<hvars, osvars, regLock, mine, todo, gvars>>

\* a registry method that leaves with the registry lock still taken
RegLockAfter_Kept(t) == t

\* `with self.lock:` of stop_all and get_running_count is left (lines
\* 196-202, 206-207): the registry lock is free again
RegLockAfter(t) == NoThread

\* ---- ProcessRegistry.stop_all (lines 194-202) ----
StopAllBegin(t) ==
    /\ UNCHANGED <<dvars, svars>>
    /\ Enters(t, "stop_all", NoHandle)
    /\ regLock = NoThread
    /\ regLock' = t
    /\ todo' = [todo EXCEPT ![t] = processes]
    /\ pc' = [pc EXCEPT ![t] = "sweep"]
    /\ swept' = <<>>
    /\ lateStart' = FALSE
    /\ UNCHANGED <<hvars, osvars, processes, ret, val, entry, mine>>

SweepStep(t, termRaises) ==
    /\ NoResultPending
    /\ pc[t] = "sweep"
    /\ todo[t] # <<>>
    /\ UNCHANGED <<op, tgt>>
    /\ StopBody(t, Head(todo[t]), TRUE, termRaises)

StopAllEnd(t) ==
    /\ UNCHANGED <<dvars, svars>>
    /\ NoResultPending
    /\ pc[t] = "sweep"
    /\ todo[t] = <<>>
    /\ regLock' = RegLockAfter(t)
    /\ Returns(t, "none", 0, "none")
    /\ UNCHANGED <<hvars, osvars, processes, op, tgt, mine, todo, gvars>>

\* ---- ProcessRegistry.get_running_count (lines 204-207) ----
CountBegin(t) ==
    /\ UNCHANGED <<dvars, svars>>
    /\ Enters(t, "get_running_count", NoHandle)
    /\ regLock = NoThread
    /\ regLock' = t
    /\ todo' = [todo EXCEPT ![t] = processes]
    /\ pc' = [pc EXCEPT ![t] = "count"]
    /\ UNCHANGED <<hvars, osvars, processes, ret, val, entry, mine, gvars>>

\* one p.is_running of the generator, taking and releasing p's lock
CountStep(t) ==
    /\ UNCHANGED <<dvars, svars>>
    /\ NoResultPending
    /\ pc[t] = "count"
    /\ todo[t] # <<>>
    /\ lock[Head(todo[t])] = NoThread
    /\ val' = [val EXCEPT ![t] = val[t] + (IF IsRunning(Head(todo[t])) THEN 1 ELSE 0)]
    /\ todo' = [todo EXCEPT ![t] = Tail(todo[t])]
    /\ UNCHANGED <<hvars, osvars, rvars, pc, op, tgt, entry, ret, mine, gvars>>

CountEnd(t) ==
    /\ UNCHANGED <<dvars, svars>>
    /\ NoResultPending
    /\ pc[t] = "count"
    /\ todo[t] = <<>>
    /\ regLock' = RegLockAfter(t)
    /\ Returns(t, "value", val[t], "none")
    /\ UNCHANGED <<hvars, osvars, processes, op, tgt, mine, todo, gvars>>

\* what get_running_count would add up if nothing moved while it counted
RunningCount == Cardinality({h \in Handles : InList(processes, h) /\ IsRunning(h)})

\* ---- ManagedProcess.is_running / get_pid as calls (lines 39-43, 152-155) ----
IsRunningCall(t, h) ==
    /\ UNCHANGED <<dvars, svars>>
    /\ Enters(t, "is_running", h)
    /\ lock[h] = NoThread
    /\ Returns(t, Bool(IsRunning(h)), 0, state[h])
    /\ UNCHANGED <<hvars, osvars, rvars, mine, todo, gvars>>

GetPidCall(t, h) ==
    /\ UNCHANGED <<dvars, svars>>
    /\ Enters(t, "get_pid", h)
    /\ lock[h] = NoThread
    /\ Returns(t, IF GetPid(h) = NoProc THEN "none" ELSE "value", GetPid(h), state[h])
    /\ UNCHANGED <<hvars, osvars, rvars, mine, todo, gvars>>

\* ---- the OS: a launched process exits (on its own or after a signal) ----
ProcExit(p) ==
    /\ UNCHANGED <<dvars, svars>>
    /\ NoResultPending
    /\ os[p] = "alive"
    /\ os' = [os EXCEPT ![p] = "dead"]
    /\ UNCHANGED <<hvars, owner, sig, rvars, tvars, gvars>>

\* ---- the caller takes the result and is free for its next call ----
Return(t) ==
    /\ UNCHANGED <<dvars, svars>>
    /\ pc[t] = "done"
    /\ pc' = [pc EXCEPT ![t] = "idle"]
    /\ op' = [op EXCEPT ![t] = NoOp]
    /\ tgt' = [tgt EXCEPT ![t] = NoHandle]
    /\ entry' = [entry EXCEPT ![t] = "none"]
    /\ ret' = [ret EXCEPT ![t] = "none"]
    /\ val' = [val EXCEPT ![t] = 0]
    /\ mine' = [mine EXCEPT ![t] = NoProc]
    /\ IF op[t] = "stop_all"
       THEN swept' = <<>> /\ lateStart' = FALSE
       ELSE UNCHANGED gvars
    /\ UNCHANGED <<hvars, osvars, rvars, todo>>

\* the running application: calls on the two handles from both threads, the
\* registry sweep and count from the main thread
Next ==
    \/ \E t \in Threads, h \in Handles, o \in {"ok", "notfound", "denied", "oserror"} : StartLaunch(t, h, o)
    \/ \E t \in Threads : StartVerify(t)
    \/ \E t \in Threads, h \in Handles, b \in BOOLEAN : StopCall(t, h, b)
    \/ \E t \in Threads, b \in BOOLEAN : StopWait(t, b)
    \/ \E t \in Threads : StopKillWait(t)
    \/ \E t \in RegistryCallers : StopAllBegin(t)
    \/ \E t \in Threads, b \in BOOLEAN : SweepStep(t, b)
    \/ \E t \in Threads : StopAllEnd(t)
    \/ \E t \in RegistryCallers : CountBegin(t)
    \/ \E t \in Threads : CountStep(t)
    \/ \E t \in Threads : CountEnd(t)
    \/ \E t \in Threads, h \in Handles : IsRunningCall(t, h)
    \/ \E t \in Threads, h \in Handles : GetPidCall(t, h)
    \/ \E p \in Procs : ProcExit(p)
    \/ \E t \in Threads : Return(t)

Spec == Init /\ [][Next]_vars

\* the same with the registry starting empty and register/unregister calls
NextRegistry ==
    \/ \E t \in RegistryCallers, h \in Handles : Register(t, h)
    \/ \E t \in RegistryCallers, h \in Handles : Unregister(t, h)
    \/ Next

SpecRegistry == InitRegistry /\ [][NextRegistry]_vars

\* ======================= device setup =======================
\* (core/device_setup.py)
\* thread t's call goes on with frame f
Goes(t, f) == frame' = [frame EXCEPT ![t] = f]

\* a returned call hands its result over before anything else moves
DevQuiet == \A u \in Threads : frame[u].pc # "done"
At(t, p) == DevQuiet /\ frame[t].pc = p

\* subprocess.run of a tool: FileNotFoundError when it is not installed,
\* else the outcome o the system produces
Run(tool, o) == IF tool \in missing THEN "notfound" ELSE o

\* instances of guard g's resource the system holds: the kernel module is
\* loaded or not, PulseAudio holds one module per load-module
Instances(g) == IF g = "video" THEN (IF modloaded THEN 1 ELSE 0) ELSE Cardinality(sinkIds)

\* VideoDeviceManager.is_module_loaded (lines 49-65): "v4l2loopback" in the
\* output of lsmod; a timeout or a missing lsmod answers False
IsModuleLoaded(rc) == rc = "ok" /\ modloaded

\* a probe that takes the device node for granted
IsDeviceAvailable_Assumed == TRUE

\* VideoDeviceManager.is_device_available (lines 40-47)
IsDeviceAvailable == devnode

\* a probe that takes the sink for granted
IsSinkLoaded_Assumed(rc) == TRUE

\* AudioDeviceManager.is_sink_loaded (lines 285-301): the sink name is in
\* the output of pactl list short sinks; timeout or missing pactl: False
IsSinkLoaded(rc) == rc = "ok" /\ sinkIds # {}

\* AudioDeviceManager.get_sink_module_ids (lines 303-331): the ids of all
\* fakemic null-sink modules; timeout or missing pactl: the empty list
RECURSIVE SeqOf(_)
SeqOf(S) ==
    IF S = {} THEN <<>>
    ELSE LET m == CHOOSE x \in S : \A y \in S : x <= y
         IN <<m>> \o SeqOf(S \ {m})
GetSinkModuleIds(rc) == IF rc = "ok" THEN SeqOf(sinkIds) ELSE <<>>

\* a load that takes a timed out load request for a success
LoadRaises_TimeoutIgnored(rc) == rc \in {"nonzero", "notfound"}

\* load_module / create_sink raise DeviceSetupError on a non-zero exit, on
\* TimeoutExpired and on FileNotFoundError (lines 144-147 and 159-166,
\* 395-398 and 417-424)
LoadRaises(rc) == rc # "ok"

\* ---- DeviceManager.setup_all / teardown_all entered (lines 475-483, 497-504) ----
SetupAllCall(t) ==
    /\ At(t, "idle")
    /\ Goes(t, [IdleFrame EXCEPT !.pc = "v_clean", !.op = "setup_all",
                                 !.fresh = \A g \in Guards : lastres[g] = "none"])
    /\ UNCHANGED <<envvars, mvars, dgvars, pvars, svars>>

TeardownAllCall(t) ==
    /\ At(t, "idle")
    /\ Goes(t, [IdleFrame EXCEPT !.pc = "v_clean", !.op = "teardown_all",
                                 !.fresh = \A g \in Guards : lastres[g] = "none"])
    /\ UNCHANGED <<envvars, mvars, dgvars, pvars, svars>>

\* ---- VideoDeviceManager.cleanup_existing_devices (lines 67-117) ----
\* cleanup_existing_devices has returned True: setup() goes on to load_module
\* (line 245); teardown() clears is_setup and returns, and teardown_all goes
\* on to the audio teardown (lines 265-267, 504-505)
VideoCleaned(t, f) ==
    IF f.op = "setup_all"
    THEN /\ Goes(t, [f EXCEPT !.pc = "v_load"])
         /\ UNCHANGED <<is_setup, dgvars>>
    ELSE /\ is_setup' = [is_setup EXCEPT !["video"] = FALSE]
         /\ lastres' = [lastres EXCEPT !["video"] = "teardown"]
         /\ lastcount' = [lastcount EXCEPT !["video"] = 0]
         /\ Goes(t, [f EXCEPT !.pc = "a_clean", !.video_ok = TRUE])

\* lines 76-89: the kills by pattern (they touch nothing modelled here and
\* swallow every error), the delay, and is_module_loaded()
VideoCleanupBegin(t, lsmod) ==
    /\ At(t, "v_clean")
    /\ UNCHANGED <<envvars, module_id, pvars, svars>>
    /\ LET rc == Run("lsmod", lsmod)
           f == [frame[t] EXCEPT !.ran = @ \cup {"v_cleanup"}, !.rc = rc,
                                 !.clean = @ /\ rc \in {"ok", "notfound"}]
       IN IF IsModuleLoaded(rc)
          THEN /\ Goes(t, [f EXCEPT !.pc = "v_unload", !.attempt = 0])
               /\ UNCHANGED <<is_setup, dgvars>>
          ELSE VideoCleaned(t, f)

\* an unload loop that goes round as long as the module is in use
RetriesLeft_Always(n) == TRUE

\* for attempt in range(Config.MAX_CLEANUP_RETRIES) (line 92): after n
\* attempts the loop goes round again
RetriesLeft(n) == n < MAX_CLEANUP_RETRIES

\* one turn of the unload loop (lines 92-115): sudo modprobe -r
\*   o = "ok" exit 0, "busy" stderr says in use, "fail" any other failure
\* The call has no try around it: a missing sudo leaves cleanup, setup() or
\* teardown(), and setup_all / teardown_all as FileNotFoundError.
VideoUnload(t, o) ==
    /\ At(t, "v_unload")
    /\ UNCHANGED <<missing, sinkIds, module_id, pvars, svars>>
    /\ LET rc == Run("sudo", o)
           f == [frame[t] EXCEPT !.rc = rc, !.attempt = @ + 1,
                                 !.clean = @ /\ rc \in {"ok", "notfound"}]
       IN CASE rc = "notfound" ->
                 /\ UNCHANGED <<modloaded, devnode, is_setup, lastcount>>
                 /\ lastres' = [lastres EXCEPT !["video"] = "raised"]
                 /\ Goes(t, [f EXCEPT !.pc = "done", !.ret = "raise",
                                      !.res = [@ EXCEPT !["video"] = "raised"]])
            [] rc = "ok" ->
                 /\ modloaded' = FALSE
                 /\ devnode' = FALSE
                 /\ VideoCleaned(t, f)
            [] rc = "busy" ->
                 /\ UNCHANGED <<modloaded, devnode>>
                 /\ IF RetriesLeft(f.attempt)
                    THEN Goes(t, f) /\ UNCHANGED <<is_setup, dgvars>>
                    ELSE VideoCleaned(t, [f EXCEPT !.exhausted = TRUE])
            [] OTHER ->
                 /\ UNCHANGED <<modloaded, devnode>>
                 /\ VideoCleaned(t, f)

\* ---- VideoDeviceManager.load_module (lines 119-166) ----
\* setup() left by DeviceSetupError, caught by setup_all (lines 487-488):
\* video_ok stays False and the audio setup is next
VideoSetupFails(t, f, why) ==
    /\ Goes(t, [f EXCEPT !.pc = "a_clean", !.res = [@ EXCEPT !["video"] = why]])
    /\ lastres' = [lastres EXCEPT !["video"] = why]
    /\ lastcount' = [lastcount EXCEPT !["video"] = 0]
    /\ UNCHANGED is_setup

\* sudo modprobe v4l2loopback (lines 136-147, 159-166)
\*   o = "ok" | "nonzero" | "timeout"; created: a module that gets loaded
\*   creates the device node.  Loading a module that is loaded is a no-op.
VideoLoad(t, o, created) ==
    /\ At(t, "v_load")
    /\ UNCHANGED <<missing, sinkIds, module_id, pvars, svars>>
    /\ LET rc == Run("sudo", o)
           loads == rc = "ok" \/ (rc = "timeout" /\ created)
           f == [frame[t] EXCEPT !.rc = rc, !.ran = @ \cup {"v_load"},
                                 !.clean = @ /\ (rc = "notfound" \/ (rc = "ok" /\ (modloaded \/ created)))]
       IN /\ modloaded' = (modloaded \/ loads)
          /\ devnode' = IF modloaded THEN devnode ELSE (loads /\ created)
          /\ IF LoadRaises(rc)
             THEN VideoSetupFails(t, f, "load")
             ELSE /\ Goes(t, [f EXCEPT !.pc = "v_probe"])
                  /\ UNCHANGED <<is_setup, dgvars>>

\* the probe after MODULE_RELOAD_DELAY (lines 149-157)
VideoProbe(t) ==
    /\ At(t, "v_probe")
    /\ UNCHANGED <<envvars, module_id, pvars, svars>>
    /\ LET f == [frame[t] EXCEPT !.ran = @ \cup {"v_verify"}]
       IN IF IsDeviceAvailable
          THEN /\ Goes(t, [f EXCEPT !.pc = "v_init"])
               /\ UNCHANGED <<is_setup, dgvars>>
          ELSE VideoSetupFails(t, f, "verify")

\* a setup that gives up when the permissions or the format cannot be set
InitFatal_Strict(chmod, fmt) == chmod # "ok" \/ fmt # "ok"

\* setup() calls set_device_permissions() and initialize_device_format()
\* and drops what they return; both catch the timeout and the missing tool
\* (lines 189-191, 222-227, 248-251)
InitFatal(chmod, fmt) == FALSE

\* ---- set_device_permissions, initialize_device_format, is_setup = True ----
\* (lines 168-227, 248-255; setup_all line 486)
\*   chmod = "ok" | "nonzero" | "timeout"; fmt also "notfound" (v4l2-ctl is
\*   optional).  Neither result is looked at.
VideoInit(t, chmod, fmt) ==
    /\ At(t, "v_init")
    /\ UNCHANGED <<envvars, module_id, pvars, svars>>
    /\ LET f == [frame[t] EXCEPT !.rc = fmt, !.ran = @ \cup {"v_init"},
                                 !.clean = @ /\ Run("sudo", chmod) = "ok" /\ fmt = "ok"]
       IN IF InitFatal(Run("sudo", chmod), fmt)
          THEN VideoSetupFails(t, f, "init")
          ELSE /\ is_setup' = [is_setup EXCEPT !["video"] = TRUE]
               /\ lastres' = [lastres EXCEPT !["video"] = "ok"]
               /\ lastcount' = [lastcount EXCEPT !["video"] = Instances("video")]
               /\ Goes(t, [f EXCEPT !.pc = "a_clean", !.video_ok = TRUE,
                                    !.ran = @ \cup {"v_mark"},
                                    !.res = [@ EXCEPT !["video"] = "ok"]])

\* ---- AudioDeviceManager.cleanup_existing_sinks (lines 333-369) ----
\* lines 342-355: the kills by pattern, the delay, get_sink_module_ids()
AudioCleanupBegin(t, o) ==
    /\ At(t, "a_clean")
    /\ UNCHANGED <<envvars, mvars, dgvars, pvars, svars>>
    /\ LET rc == Run("pactl", o)
       IN Goes(t, [frame[t] EXCEPT !.pc = "a_unload", !.ids = GetSinkModuleIds(rc),
                                   !.rc = rc, !.ran = @ \cup {"a_cleanup"},
                                   !.clean = @ /\ rc \in {"ok", "notfound"}])

\* one turn of the loop (lines 357-366): pactl unload-module id
\*   o = "ok" | "nonzero" | "timeout"; gone: the module went although the
\*   call timed out.  The exit code is not looked at, the timeout is caught.
AudioUnload(t, o, gone) ==
    /\ At(t, "a_unload")
    /\ frame[t].ids # <<>>
    /\ UNCHANGED <<missing, modloaded, devnode, mvars, dgvars, pvars, svars>>
    /\ LET rc == Run("pactl", o)
           unloaded == rc = "ok" \/ (rc = "timeout" /\ gone)
       IN /\ sinkIds' = IF unloaded THEN sinkIds \ {Head(frame[t].ids)} ELSE sinkIds
          /\ Goes(t, [frame[t] EXCEPT !.ids = Tail(@), !.rc = rc,
                                      !.clean = @ /\ rc \in {"ok", "notfound"}])

\* the loop is through (lines 368-369): setup() goes on to create_sink (line
\* 442); teardown() clears is_setup and module_id and teardown_all returns
\* video_ok and audio_ok (lines 457-460, 505-506)
AudioCleaned(t) ==
    /\ At(t, "a_unload")
    /\ frame[t].ids = <<>>
    /\ UNCHANGED <<envvars, pvars, svars>>
    /\ IF frame[t].op = "setup_all"
       THEN /\ Goes(t, [frame[t] EXCEPT !.pc = "a_load"])
            /\ UNCHANGED <<mvars, dgvars>>
       ELSE /\ is_setup' = [is_setup EXCEPT !["audio"] = FALSE]
            /\ module_id' = NoModule
            /\ lastres' = [lastres EXCEPT !["audio"] = "teardown"]
            /\ lastcount' = [lastcount EXCEPT !["audio"] = 0]
            /\ Goes(t, [frame[t] EXCEPT !.pc = "done", !.audio_ok = TRUE,
                                        !.ret = Bool(frame[t].video_ok)])

\* ---- AudioDeviceManager.create_sink (lines 371-424) ----
\* setup() left by DeviceSetupError, caught by setup_all (lines 492-495):
\* audio_ok stays False and setup_all returns the pair
AudioSetupFails(t, f, why) ==
    /\ Goes(t, [f EXCEPT !.pc = "done", !.ret = "pair",
                         !.res = [@ EXCEPT !["audio"] = why]])
    /\ lastres' = [lastres EXCEPT !["audio"] = why]
    /\ lastcount' = [lastcount EXCEPT !["audio"] = 0]
    /\ UNCHANGED is_setup

\* the id PulseAudio gives the next module
NewId == CHOOSE i \in SinkIdSet \ sinkIds : \A j \in SinkIdSet \ sinkIds : i <= j

\* pactl load-module module-null-sink (lines 383-405, 417-424)
\*   o = "ok" | "nonzero" | "timeout"; created: the module got loaded although
\*   the call timed out; parsed: stdout is the module id
AudioLoad(t, o, created, parsed) ==
    /\ At(t, "a_load")
    /\ UNCHANGED <<missing, modloaded, devnode, pvars, svars>>
    /\ LET rc == Run("pactl", o)
           loads == rc = "ok" \/ (rc = "timeout" /\ created)
           f == [frame[t] EXCEPT !.rc = rc, !.ran = @ \cup {"a_load"},
                                 !.clean = @ /\ (rc = "notfound" \/ (rc = "ok" /\ parsed))]
       IN /\ loads => sinkIds # SinkIdSet
          /\ sinkIds' = IF loads THEN sinkIds \cup {NewId} ELSE sinkIds
          /\ module_id' = IF rc = "ok" /\ parsed THEN NewId ELSE module_id
          /\ IF LoadRaises(rc)
             THEN AudioSetupFails(t, f, "load")
             ELSE /\ Goes(t, [f EXCEPT !.pc = "a_probe"])
                  /\ UNCHANGED <<is_setup, dgvars>>

\* the probe after CLEANUP_DELAY, then is_setup = True (lines 407-415,
\* 444-447; setup_all lines 491, 495)
\*   o = "ok" | "timeout": outcome of pactl list short sinks
AudioProbe(t, o) ==
    /\ At(t, "a_probe")
    /\ UNCHANGED <<envvars, module_id, pvars, svars>>
    /\ LET rc == Run("pactl", o)
           f == [frame[t] EXCEPT !.rc = rc, !.ran = @ \cup {"a_verify"},
                                 !.clean = @ /\ rc \in {"ok", "notfound"}]
       IN IF IsSinkLoaded(rc)
          THEN /\ is_setup' = [is_setup EXCEPT !["audio"] = TRUE]
               /\ lastres' = [lastres EXCEPT !["audio"] = "ok"]
               /\ lastcount' = [lastcount EXCEPT !["audio"] = Instances("audio")]
               /\ Goes(t, [f EXCEPT !.pc = "done", !.ret = "pair", !.audio_ok = TRUE,
                                    !.ran = @ \cup {"a_mark"},
                                    !.res = [@ EXCEPT !["audio"] = "ok"]])
          ELSE AudioSetupFails(t, f, "verify")

\* ---- DeviceManager.get_status (lines 508-521) ----
GetStatusCall(t, lsmod, pactl) ==
    /\ At(t, "idle")
    /\ UNCHANGED <<envvars, mvars, dgvars, pvars, svars>>
    /\ Goes(t, [IdleFrame EXCEPT
                  !.pc = "done", !.op = "get_status", !.ret = "status",
                  !.status = [video_device_exists |-> IsDeviceAvailable,
                              video_module_loaded |-> IsModuleLoaded(Run("lsmod", lsmod)),
                              video_setup |-> is_setup["video"],
                              audio_sink_loaded |-> IsSinkLoaded(Run("pactl", pactl)),
                              audio_setup |-> is_setup["audio"]]])

\* the caller takes the result (or the exception) of its DeviceManager call
DevReturn(t) ==
    /\ frame[t].pc = "done"
    /\ Goes(t, IdleFrame)
    /\ UNCHANGED <<envvars, mvars, dgvars, pvars, svars>>

\* the supervising thread calling the DeviceManager, one call at a time, on a
\* system with any of the tools missing and the module loaded or not
NextDevices ==
    \/ \E t \in Supervisor : SetupAllCall(t)
    \/ \E t \in Supervisor : TeardownAllCall(t)
    \/ \E t \in Supervisor, o \in {"ok", "timeout"} : VideoCleanupBegin(t, o)
    \/ \E t \in Supervisor, o \in {"ok", "busy", "fail"} : VideoUnload(t, o)
    \/ \E t \in Supervisor, o \in {"ok", "nonzero", "timeout"}, b \in BOOLEAN : VideoLoad(t, o, b)
    \/ \E t \in Supervisor : VideoProbe(t)
    \/ \E t \in Supervisor, o1 \in {"ok", "nonzero", "timeout"},
          o2 \in {"ok", "nonzero", "timeout", "notfound"} : VideoInit(t, o1, o2)
    \/ \E t \in Supervisor, o \in {"ok", "timeout"} : AudioCleanupBegin(t, o)
    \/ \E t \in Supervisor, o \in {"ok", "nonzero", "timeout"}, b \in BOOLEAN : AudioUnload(t, o, b)
    \/ \E t \in Supervisor : AudioCleaned(t)
    \/ \E t \in Supervisor, o \in {"ok", "nonzero", "timeout"}, b1, b2 \in BOOLEAN : AudioLoad(t, o, b1, b2)
    \/ \E t \in Supervisor, o \in {"ok", "timeout"} : AudioProbe(t, o)
    \/ \E t \in Supervisor, o1, o2 \in {"ok", "timeout"} : GetStatusCall(t, o1, o2)
    \/ \E t \in Supervisor : DevReturn(t)

InitDevices ==
    \E m \in SUBSET Tools, loaded \in BOOLEAN :
        /\ InitProcesses(<<"VideoStream", "AudioStream">>)
        /\ InitDeviceManager(m, loaded)
        /\ InitStreams({})

SpecDevices == InitDevices /\ [][NextDevices]_vars

\* ---- shutdown while the background setup runs ----
\* FakeCamGUI._auto_setup_devices and _setup_devices_thread run setup_all on
\* a daemon thread (gui/main_window.py:962-1041); FakeCamGUI.cleanup calls
\* teardown_all on the GUI thread (lines 1292-1319) without waiting for that
\* thread.  The DeviceManager and its two managers hold no lock
\* (core/device_setup.py:35-38, 278-283, 470-473).
SetupThread == "worker"
GuiThread == "main"

\* the thread _auto_setup_devices starts: one setup_all, 500 ms after the
\* window is built (gui/main_window.py:196, 962-1001)
AutoSetupDevices ==
    /\ lastres["audio"] = "none"
    /\ SetupAllCall(SetupThread)

\* cleanup() runs once: the application exits when it has returned
NextShutdown ==
    \/ AutoSetupDevices
    \/ TeardownAllCall(GuiThread)
    \/ \E t \in Threads, o \in {"ok", "timeout"} : VideoCleanupBegin(t, o)
    \/ \E t \in Threads, o \in {"ok", "busy", "fail"} : VideoUnload(t, o)
    \/ \E t \in Threads, o \in {"ok", "nonzero", "timeout"}, b \in BOOLEAN : VideoLoad(t, o, b)
    \/ \E t \in Threads : VideoProbe(t)
    \/ \E t \in Threads, o1 \in {"ok", "nonzero", "timeout"},
          o2 \in {"ok", "nonzero", "timeout", "notfound"} : VideoInit(t, o1, o2)
    \/ \E t \in Threads, o \in {"ok", "timeout"} : AudioCleanupBegin(t, o)
    \/ \E t \in Threads, o \in {"ok", "nonzero", "timeout"}, b \in BOOLEAN : AudioUnload(t, o, b)
    \/ \E t \in Threads : AudioCleaned(t)
    \/ \E t \in Threads, o \in {"ok", "nonzero", "timeout"}, b1, b2 \in BOOLEAN : AudioLoad(t, o, b1, b2)
    \/ \E t \in Threads, o \in {"ok", "timeout"} : AudioProbe(t, o)
    \/ DevReturn(SetupThread)

\* every tool installed, the module loaded or not
InitShutdown ==
    \E loaded \in BOOLEAN :
        /\ InitProcesses(<<"VideoStream", "AudioStream">>)
        /\ InitDeviceManager({}, loaded)
        /\ InitStreams({})

SpecShutdown == InitShutdown /\ [][NextShutdown]_vars

\* ======================= stream controllers =======================
\* (core/video_manager.py, core/audio_manager.py, utils/tts_engines.py)
\* One thread drives the controllers, so a call runs from entry to return
\* with nothing in between; the processes they started may exit at any time.

\* Config.VIDEO_LIBRARY (utils/config.py:86-105): one generated source and
\* the download sources, which differ only in file name and url
VIDEO_LIBRARY ==
    [s \in {"Test Pattern", "Surfing HD"} |->
        IF s = "Test Pattern"
        THEN [type |-> "generated", file |-> "none"]
        ELSE [type |-> "download", file |-> "surfing.mp4"]]

\* Config.AUDIO_LIBRARY (utils/config.py:108-144): the speech sources (no
\* "type" key, a text and a file), the tone and silence
AUDIO_LIBRARY ==
    [s \in {"Meeting Voice", "Simple Tone", "Silence"} |->
        CASE s = "Meeting Voice" -> [type |-> "speech", file |-> "meeting_voice.wav"]
          [] s = "Simple Tone" -> [type |-> "tone", file |-> "tone.wav"]
          [] OTHER -> [type |-> "silence", file |-> "none"]]

\* the files a run can leave behind in the video and audio directories
CacheFiles == {"surfing.mp4", "meeting_voice.wav", "tone.wav"}

\* TTSManager.engines (utils/tts_engines.py:401-407)
Engines == {"flite", "pico2wave", "espeak-ng", "festival", "espeak"}

\* Config.TTS_ENGINE_PRIORITY in another order
TTS_ENGINE_PRIORITY_Reversed ==
    <<"espeak", "festival", "espeak-ng", "pico2wave", "flite">>

\* Config.TTS_ENGINE_PRIORITY (utils/config.py:147-153)
TTS_ENGINE_PRIORITY ==
    <<"flite", "pico2wave", "espeak-ng", "festival", "espeak">>

\* a catalog that knows every name
InLibrary_Any(c, s) == TRUE

\* source in Config.VIDEO_LIBRARY / Config.AUDIO_LIBRARY
InLibrary(c, s) ==
    IF c = "video" THEN s \in DOMAIN VIDEO_LIBRARY ELSE s \in DOMAIN AUDIO_LIBRARY

\* the catalog entry of a name
VideoInfo(s) ==
    IF s \in DOMAIN VIDEO_LIBRARY THEN VIDEO_LIBRARY[s]
    ELSE [type |-> "none", file |-> "none"]
AudioInfo(s) ==
    IF s \in DOMAIN AUDIO_LIBRARY THEN AUDIO_LIBRARY[s]
    ELSE [type |-> "none", file |-> "none"]

\* output_file.with_suffix('.temp.wav') (core/audio_manager.py:119)
TempOf(f) == IF f = "meeting_voice.wav" THEN "meeting_voice.temp.wav" ELSE "temp.wav"

\* what a call hands back to the action that made it
\*   x, fs, av   the controller, the files and the engine cache afterwards
Res(x, fs, av) ==
    [x |-> x, fs |-> fs, av |-> av, ret |-> "none", cmds |-> <<>>, ran |-> {},
     stopped |-> "none", asked |-> NoSource, absent |-> FALSE, enh |-> "none"]

\* ---- ManagedProcess as one controller uses it ----
\* ManagedProcess.is_running (utils/process_manager.py:39-43)
ProcessIsRunning(x) == x.state = RUNNING /\ x.proc = "alive"

\* ManagedProcess.start (lines 49-104)
\*   o = "alive"    launched and alive after PROCESS_START_DELAY
\*       "died"     launched and gone after the delay
\*       "nolaunch" Popen raised
ProcessStart(x, o) ==
    IF x.state = RUNNING
    THEN [x |-> x, ret |-> "raise", launched |-> FALSE]
    ELSE CASE o = "alive" ->
                [x |-> [x EXCEPT !.state = RUNNING, !.proc = "alive"],
                 ret |-> "true", launched |-> TRUE]
           [] o = "died" ->
                [x |-> [x EXCEPT !.state = ERROR, !.proc = "none"],
                 ret |-> "false", launched |-> TRUE]
           [] OTHER ->
                [x |-> [x EXCEPT !.state = ERROR],
                 ret |-> "false", launched |-> TRUE]

\* ManagedProcess.stop (lines 106-150)
\*   o = "ok" | "fail": a process that is alive may survive the kill, or
\*   terminate() may raise; the finally block runs either way
ProcessStop(x, o) ==
    IF x.state = STOPPED THEN [x |-> x, ret |-> "true"]
    ELSE IF x.proc = "none"
    THEN [x |-> [x EXCEPT !.state = STOPPED], ret |-> "true"]
    ELSE [x |-> [x EXCEPT !.state = STOPPED, !.proc = "none"],
          ret |-> IF o = "fail" /\ x.proc = "alive" THEN "false" ELSE "true"]

\* ---- TTSManager (utils/tts_engines.py:391-547) ----
\* get_available_engines (lines 412-427): the first call probes every engine
\* (probe: those whose command `which` finds) and caches the answer
GetAvailableEngines(av, probe) == IF av = NotProbed THEN probe ELSE av

\* the loop of get_best_engine (lines 439-445) over a list of names
RECURSIVE FirstAvailable(_, _)
FirstAvailable(names, av) ==
    IF names = <<>> THEN NoEngine
    ELSE IF Head(names) \in av THEN Head(names)
    ELSE FirstAvailable(Tail(names), av)

\* a selection that hands out the preferred engine without looking
GetBestEngine_Unchecked(av) == Head(TTS_ENGINE_PRIORITY)

\* get_best_engine (lines 429-445)
GetBestEngine(av) == FirstAvailable(TTS_ENGINE_PRIORITY, av)

\* synthesize (lines 447-482) and the engine's synthesize (e.g. 106-139)
\*   so = "ok"      exit 0 and the file written
\*        "nofile"  exit 0 and nothing written
\*        "fail"    non-zero exit, timeout or other error
SynthesizeR(fs, av, out, probe, so) ==
    LET av1 == GetAvailableEngines(av, probe)
        engine == GetBestEngine(av1)
        fs1 == IF so = "ok" THEN fs \cup {out} ELSE fs
    IN IF engine = NoEngine
       THEN [Res(0, fs, av1) EXCEPT !.ret = "false"]
       ELSE [Res(0, fs1, av1) EXCEPT
               !.ret = Bool(so \in {"ok", "nofile"} /\ out \in fs1),
               !.ran = {engine}]

\* apply_audio_enhancements (lines 484-547)
\*   eo = "ok"       ffmpeg exit 0 and the output written
\*        "nofile"   exit 0 and nothing written
\*        "nonzero"  non-zero exit
\*        "timeout"  TimeoutExpired
\*        "error"    any other exception (ffmpeg not installed)
ApplyAudioEnhancementsR(fs, in, out, eo) ==
    LET fs1 == IF eo = "ok" THEN fs \cup {out} ELSE fs
    IN IF eo \in {"ok", "nofile"} /\ out \in fs1
       THEN [Res(0, fs1, 0) EXCEPT !.ret = "true", !.ran = {"ffmpeg"}, !.enh = "ok"]
       ELSE IF eo \in {"nofile", "nonzero"}
       THEN [Res(0, IF in \in fs THEN fs \cup {out} ELSE fs, 0) EXCEPT
               !.ret = "false", !.ran = {"ffmpeg"}, !.enh = "failed"]
       ELSE [Res(0, fs, 0) EXCEPT
               !.ret = "false", !.ran = {"ffmpeg"}, !.enh = "failed"]

\* AudioGenerator.generate_speech (core/audio_manager.py:93-149)
GenerateSpeechR(fs, av, out, probe, so, eo) ==
    LET temp == TempOf(out)
        s == SynthesizeR(fs, av, temp, probe, so)
        e == ApplyAudioEnhancementsR(s.fs, temp, out, eo)
        fs2 == e.fs \ {temp}
    IN IF s.ret # "true" \/ temp \notin s.fs
       THEN s
       ELSE [Res(0, fs2, s.av) EXCEPT
               !.ret = Bool(e.ret = "true" /\ out \in fs2),
               !.ran = s.ran \cup e.ran, !.enh = e.enh]

\* AudioGenerator.generate_tone (core/audio_manager.py:46-91)
\*   to = "ok" | "fail"
GenerateToneR(fs, av, out, to) ==
    LET fs1 == IF to = "ok" THEN fs \cup {out} ELSE fs
    IN [Res(0, fs1, av) EXCEPT !.ret = Bool(to = "ok" /\ out \in fs1),
                               !.ran = {"tone"}]

\* AudioManager.generate_audio (core/audio_manager.py:325-374); every speech
\* entry of the catalog has a text
GenerateAudioR(fs, av, source, probe, so, eo, to) ==
    LET info == AudioInfo(source)
    IN IF ~InLibrary("audio", source)
       THEN [Res(0, fs, av) EXCEPT !.ret = "unknown_source"]
       ELSE IF info.type = "silence" \/ info.file \in fs
       THEN [Res(0, fs, av) EXCEPT !.ret = "true"]
       ELSE IF info.type = "tone"
       THEN GenerateToneR(fs, av, info.file, to)
       ELSE GenerateSpeechR(fs, av, info.file, probe, so, eo)

\* ---- VideoManager (core/video_manager.py:101-394) ----
\* VideoManager.is_running (lines 125-128)
VideoIsRunning(x) == ProcessIsRunning(x)

\* a fallback that is recorded under the name that was asked for
RecordedAfterFallback_Requested(source) == source

\* self.current_source = "Fallback (Blue Screen)" (line 291)
RecordedAfterFallback(source) == FALLBACK

\* VideoManager.start (lines 228-299)
\*   dl = "ok" | "fail": the download, when the file is missing
\*   o1, o2: outcomes of the first and the second ManagedProcess.start
VideoStartR(x, fs, av, source, dl, o1, o2) ==
    LET info == VideoInfo(source)
        absent == info.type = "download" /\ info.file \notin fs
        fs1 == IF absent /\ dl = "ok" THEN fs \cup {info.file} ELSE fs
        cmd == IF info.type = "generated" THEN "test_pattern"
               ELSE IF absent /\ dl # "ok" THEN "fallback" ELSE "file"
        ran == IF absent THEN {"download"} ELSE {}
        s1 == ProcessStart(x, o1)
        s2 == ProcessStart(s1.x, o2)
        r == [Res(x, fs1, av) EXCEPT !.ran = ran, !.absent = absent]
    IN IF VideoIsRunning(x)
       THEN [Res(x, fs, av) EXCEPT !.ret = "already_running"]
       ELSE IF ~InLibrary("video", source)
       THEN [Res(x, fs, av) EXCEPT !.ret = "unknown_source"]
       ELSE IF info.type \notin {"generated", "download"}
       THEN [Res(x, fs, av) EXCEPT !.ret = "unknown_type"]
       ELSE IF s1.ret = "raise"
       THEN [r EXCEPT !.ret = "start_failed"]
       ELSE IF s1.ret = "true"
       THEN [r EXCEPT !.x = [s1.x EXCEPT !.current_source = source],
                      !.ret = "true", !.cmds = <<cmd>>]
       ELSE IF s2.ret = "true"
       THEN [r EXCEPT !.x = [s2.x EXCEPT !.current_source = RecordedAfterFallback(source)],
                      !.ret = "true", !.cmds = <<cmd, "fallback">>]
       ELSE [r EXCEPT !.x = s2.x, !.ret = "start_failed",
                      !.cmds = <<cmd, "fallback">>]

\* a restart that uses only the name it is given
RestartSource_Given(x, source) == source

\* restart (video lines 331-335, audio lines 314-318): the name given, or
\* else the recorded one
RestartSource(x, source) == IF source = NoSource THEN x.current_source ELSE source

\* VideoManager.stop (lines 301-319)
VideoStopR(x, fs, av, po) ==
    LET s == ProcessStop(x, po)
    IN IF ~VideoIsRunning(x)
       THEN [Res(x, fs, av) EXCEPT !.ret = "true"]
       ELSE [Res(IF s.ret = "true"
                 THEN [s.x EXCEPT !.current_source = NoSource] ELSE s.x, fs, av)
             EXCEPT !.ret = s.ret, !.stopped = s.ret]

\* VideoManager.restart (lines 321-340); source = NoSource: no argument
VideoRestartR(x, fs, av, source, po, dl, o1, o2) ==
    LET s == RestartSource(x, source)
        st == VideoStopR(x, fs, av, po)
        r == VideoStartR(st.x, fs, av, s, dl, o1, o2)
    IN IF s = NoSource
       THEN [Res(x, fs, av) EXCEPT !.ret = "no_source"]
       ELSE [r EXCEPT !.stopped = st.stopped, !.asked = s]

\* ---- AudioManager (core/audio_manager.py:167-422) ----
\* is_running with the silence flag left out
AudioIsRunning_ProcessOnly(x) == ProcessIsRunning(x)

\* AudioManager.is_running (lines 191-194)
AudioIsRunning(x) == ProcessIsRunning(x) \/ x.is_silence_mode

\* AudioManager.start (lines 216-273)
\*   probe, so, eo, to: see GenerateAudioR; o1: outcome of ManagedProcess.start
AudioStartR(x, fs, av, source, probe, so, eo, to, o1) ==
    LET info == AudioInfo(source)
        absent == info.file \notin fs
        g == IF absent THEN GenerateAudioR(fs, av, source, probe, so, eo, to)
             ELSE [Res(0, fs, av) EXCEPT !.ret = "true"]
        s1 == ProcessStart(x, o1)
        r == [Res(s1.x, g.fs, g.av) EXCEPT !.ran = g.ran, !.absent = absent,
                                           !.enh = g.enh]
    IN IF AudioIsRunning(x)
       THEN [Res(x, fs, av) EXCEPT !.ret = "already_running"]
       ELSE IF ~InLibrary("audio", source)
       THEN [Res(x, fs, av) EXCEPT !.ret = "unknown_source"]
       ELSE IF info.type = "silence"
       THEN [Res([x EXCEPT !.is_silence_mode = TRUE, !.current_source = source],
                 fs, av) EXCEPT !.ret = "true"]
       ELSE IF info.file = "none"
       THEN [Res(x, fs, av) EXCEPT !.ret = "no_file"]
       ELSE IF g.ret # "true" \/ info.file \notin g.fs
       THEN [r EXCEPT !.x = x, !.ret = "generate_failed"]
       ELSE IF s1.ret = "true"
       THEN [r EXCEPT !.x = [s1.x EXCEPT !.current_source = source],
                      !.ret = "true", !.cmds = <<"file">>]
       ELSE [r EXCEPT !.ret = "start_failed",
                      !.cmds = IF s1.launched THEN <<"file">> ELSE <<>>]

\* AudioManager.stop (lines 275-302)
AudioStopR(x, fs, av, po) ==
    LET s == ProcessStop(x, po)
    IN IF ~AudioIsRunning(x)
       THEN [Res(x, fs, av) EXCEPT !.ret = "true"]
       ELSE IF x.is_silence_mode
       THEN [Res([x EXCEPT !.is_silence_mode = FALSE, !.current_source = NoSource],
                 fs, av) EXCEPT !.ret = "true"]
       ELSE [Res(IF s.ret = "true"
                 THEN [s.x EXCEPT !.current_source = NoSource] ELSE s.x, fs, av)
             EXCEPT !.ret = s.ret, !.stopped = s.ret]

\* AudioManager.restart (lines 304-323)
AudioRestartR(x, fs, av, source, po, probe, so, eo, to, o1) ==
    LET s == RestartSource(x, source)
        st == AudioStopR(x, fs, av, po)
        r == AudioStartR(st.x, fs, av, s, probe, so, eo, to, o1)
    IN IF s = NoSource
       THEN [Res(x, fs, av) EXCEPT !.ret = "no_source"]
       ELSE [r EXCEPT !.stopped = st.stopped, !.asked = s]

\* ---- the calls ----
\* the caller has taken the result of the last call
StreamQuiet == last.op = NoOp

\* controller c's method o, given source, ended as r
Ends(c, o, source, r) ==
    /\ ctl' = [ctl EXCEPT ![c] = r.x]
    /\ files' = r.fs
    /\ available' = r.av
    /\ last' = [c |-> c, op |-> o, source |-> source, ret |-> r.ret,
                cmds |-> r.cmds, ran |-> r.ran, stopped |-> r.stopped,
                asked |-> r.asked, absent |-> r.absent, enh |-> r.enh]
    /\ UNCHANGED <<pvars, dvars>>

\* the TTSManager's method o ended as r
TtsEnds(o, r) ==
    /\ files' = r.fs
    /\ available' = r.av
    /\ last' = [NoCall EXCEPT !.c = "tts", !.op = o, !.ret = r.ret,
                              !.ran = r.ran, !.enh = r.enh]
    /\ UNCHANGED <<ctl, pvars, dvars>>

\* outcomes are drawn for the steps a call can reach
StopOutcomes(c) == IF ProcessIsRunning(ctl[c]) THEN {"ok", "fail"} ELSE {"ok"}
StartOutcomes == {"alive", "died", "nolaunch"}
DownloadOutcomes(s) ==
    IF VideoInfo(s).type = "download" /\ VideoInfo(s).file \notin files
    THEN {"ok", "fail"} ELSE {"ok"}
ProbeOutcomes(S) == IF available = NotProbed THEN S ELSE {available}
\* tone: to; speech: probe, so, eo
GenOutcomes(s, S) ==
    IF AudioInfo(s).type = "tone" /\ AudioInfo(s).file \notin files
    THEN [probe : {{}}, so : {"ok"}, eo : {"ok"}, to : {"ok", "fail"}]
    ELSE IF AudioInfo(s).type = "speech" /\ AudioInfo(s).file \notin files
    THEN [probe : ProbeOutcomes(S), so : {"ok", "nofile", "fail"},
          eo : {"ok", "nofile", "nonzero", "timeout", "error"}, to : {"ok"}]
    ELSE [probe : {{}}, so : {"ok"}, eo : {"ok"}, to : {"ok"}]

VideoStart(source) ==
    /\ StreamQuiet
    /\ \E dl \in DownloadOutcomes(source), o1, o2 \in StartOutcomes :
          Ends("video", "start", source,
               VideoStartR(ctl["video"], files, available, source, dl, o1, o2))

VideoStop ==
    /\ StreamQuiet
    /\ \E po \in StopOutcomes("video") :
          Ends("video", "stop", NoSource,
               VideoStopR(ctl["video"], files, available, po))

VideoRestart(source) ==
    /\ StreamQuiet
    /\ LET s == RestartSource(ctl["video"], source)
       IN \E po \in StopOutcomes("video"), dl \in DownloadOutcomes(s),
             o1, o2 \in StartOutcomes :
             Ends("video", "restart", source,
                  VideoRestartR(ctl["video"], files, available, source, po, dl, o1, o2))

AudioStart(source, S) ==
    /\ StreamQuiet
    /\ \E g \in GenOutcomes(source, S), o1 \in StartOutcomes :
          Ends("audio", "start", source,
               AudioStartR(ctl["audio"], files, available, source,
                           g.probe, g.so, g.eo, g.to, o1))

AudioStop ==
    /\ StreamQuiet
    /\ \E po \in StopOutcomes("audio") :
          Ends("audio", "stop", NoSource,
               AudioStopR(ctl["audio"], files, available, po))

AudioRestart(source, S) ==
    /\ StreamQuiet
    /\ LET s == RestartSource(ctl["audio"], source)
       IN \E po \in StopOutcomes("audio"), g \in GenOutcomes(s, S),
             o1 \in StartOutcomes :
             Ends("audio", "restart", source,
                  AudioRestartR(ctl["audio"], files, available, source, po,
                                g.probe, g.so, g.eo, g.to, o1))

\* the process a controller streams with exits by itself
StreamDies(c) ==
    /\ StreamQuiet
    /\ ctl[c].proc = "alive"
    /\ ctl' = [ctl EXCEPT ![c].proc = "dead"]
    /\ UNCHANGED <<files, available, last, pvars, dvars>>

\* the caller takes the result (or the exception) of its call
StreamReturn ==
    /\ ~StreamQuiet
    /\ last' = NoCall
    /\ UNCHANGED <<ctl, files, available, pvars, dvars>>

\* TTSManager.get_best_engine, synthesize and apply_audio_enhancements and
\* AudioGenerator.generate_speech called by themselves, on the files of the
\* "Meeting Voice" source
GetBestEngineCall(probe) ==
    /\ StreamQuiet
    /\ LET av == GetAvailableEngines(available, probe)
       IN TtsEnds("get_best_engine",
                  [Res(0, files, av) EXCEPT !.ret = GetBestEngine(av)])

SynthesizeCall(probe, so) ==
    /\ StreamQuiet
    /\ TtsEnds("synthesize",
               SynthesizeR(files, available, "meeting_voice.temp.wav", probe, so))

EnhanceCall(eo) ==
    /\ StreamQuiet
    /\ LET r == ApplyAudioEnhancementsR(files, "meeting_voice.temp.wav",
                                        "meeting_voice.wav", eo)
       IN TtsEnds("apply_audio_enhancements", [r EXCEPT !.av = available])

GenerateSpeechCall(probe, so, eo) ==
    /\ StreamQuiet
    /\ TtsEnds("generate_speech",
               GenerateSpeechR(files, available, "meeting_voice.wav", probe, so, eo))

\* the names the user interface can hand to start and restart
VideoNames == DOMAIN VIDEO_LIBRARY \cup {"Nope"}
AudioNames == DOMAIN AUDIO_LIBRARY \cup {"Nope"}
\* the engine sets the stream model lets the first probe find
StreamProbes == {{}, {"espeak"}, {"flite", "festival"}}

NextStreams ==
    \/ \E s \in VideoNames : VideoStart(s)
    \/ VideoStop
    \/ \E s \in VideoNames \cup {NoSource} : VideoRestart(s)
    \/ \E s \in AudioNames : AudioStart(s, StreamProbes)
    \/ AudioStop
    \/ \E s \in AudioNames \cup {NoSource} : AudioRestart(s, StreamProbes)
    \/ \E c \in Controllers : StreamDies(c)
    \/ StreamReturn

\* any of the cache files may be there from an earlier run
InitStreamsAny ==
    \E fs \in SUBSET CacheFiles :
        /\ InitProcesses(<<"VideoStream", "AudioStream">>)
        /\ InitDeviceManager({}, FALSE)
        /\ InitStreams(fs)

SpecStreams == InitStreamsAny /\ [][NextStreams]_vars

\* the TTSManager by itself, with every set of engines the probe can find
NextSynthesis ==
    \/ \E probe \in ProbeOutcomes(SUBSET Engines) : GetBestEngineCall(probe)
    \/ \E probe \in ProbeOutcomes(SUBSET Engines), so \in {"ok", "nofile", "fail"} :
          SynthesizeCall(probe, so)
    \/ \E eo \in {"ok", "nofile", "nonzero", "timeout", "error"} : EnhanceCall(eo)
    \/ \E probe \in ProbeOutcomes(SUBSET Engines), so \in {"ok", "nofile", "fail"},
          eo \in {"ok", "nofile", "nonzero", "timeout", "error"} :
          GenerateSpeechCall(probe, so, eo)
    \/ StreamReturn

InitSynthesis ==
    \E fs \in SUBSET {"meeting_voice.wav"} :
        /\ InitProcesses(<<"VideoStream", "AudioStream">>)
        /\ InitDeviceManager({}, FALSE)
        /\ InitStreams(fs)

SpecSynthesis == InitSynthesis /\ [][NextSynthesis]_vars

\* ======================= shutdown =======================
\* FakeCamGUI.cleanup (gui/main_window.py:1292-1319), run on the main thread
\* by on_closing (lines 1321-1326) or by main.signal_handler
\* (__main__.py:145-149).  The position of cleanup() is kept in the main
\* thread's frame, which its last statement, teardown_all, goes on using.
\*   frame.pc  "c_video", "c_video_stop", "c_audio", "c_audio_stop",
\*             "c_sweep", "c_teardown", then the positions of teardown_all
\*   frame.ran what cleanup() has done: "signal" (it runs in the signal
\*             handler), "video", "audio", "stop_all"

\* no cleanup has begun: the window is up and its callbacks run
AppRunning == frame[GuiThread].op = NoOp

\* the ManagedProcess of a controller (video_manager.py:117, audio_manager.py:183)
HandleOf(c) == IF c = "video" THEN "VideoStream" ELSE "AudioStream"

\* a cleanup that goes from the controllers straight to the devices
AfterAudioStop_Teardown == "c_teardown"

\* cleanup(): get_registry().stop_all() (line 1311) is the statement after
\* the two controller stops
AfterAudioStop == "c_sweep"

\* the statement of cleanup() after the stop of controller c
AfterStop(c) == IF c = "video" THEN "c_audio" ELSE AfterAudioStop

\* the main thread's call record is empty again
Cleared(t) ==
    /\ pc' = [pc EXCEPT ![t] = "idle"]
    /\ op' = [op EXCEPT ![t] = NoOp]
    /\ tgt' = [tgt EXCEPT ![t] = NoHandle]
    /\ entry' = [entry EXCEPT ![t] = "none"]
    /\ ret' = [ret EXCEPT ![t] = "none"]
    /\ val' = [val EXCEPT ![t] = 0]
    /\ mine' = [mine EXCEPT ![t] = NoProc]

\* on_closing: the user closes the window; a Tk callback, so the main thread
\* is in no other call
OnClosing ==
    /\ AppRunning
    /\ NoResultPending
    /\ pc[GuiThread] = "idle"
    /\ Goes(GuiThread, [IdleFrame EXCEPT !.pc = "c_video", !.op = "cleanup"])
    /\ UNCHANGED <<envvars, mvars, dgvars, pvars, svars>>

\* signal_handler: SIGINT or SIGTERM is delivered.  Python runs the handler
\* on the main thread, on top of whatever call the main thread is in; that
\* call does not go on before the handler returns, and the handler ends with
\* sys.exit(0), so its locals are of no further use, but the locks it holds
\* stay held.  One signal is followed.
SignalHandler ==
    /\ "signal" \notin frame[GuiThread].ran
    /\ frame[GuiThread].pc # "done"
    /\ NoResultPending
    /\ Cleared(GuiThread)
    /\ todo' = [todo EXCEPT ![GuiThread] = <<>>]
    /\ Goes(GuiThread, [IdleFrame EXCEPT !.pc = "c_video", !.op = "cleanup",
                                         !.ran = {"signal"}])
    /\ UNCHANGED <<hvars, osvars, rvars, gvars, envvars, mvars, dgvars, svars>>

\* VideoManager.stop / AudioManager.stop up to their process.stop():
\* is_running takes the handle's lock (video_manager.py:308-310,
\* audio_manager.py:282-294)
CleanupCheck(c) ==
    /\ frame[GuiThread].op = "cleanup"
    /\ frame[GuiThread].pc = IF c = "video" THEN "c_video" ELSE "c_audio"
    /\ pc[GuiThread] = "idle"
    /\ lock[HandleOf(c)] = NoThread
    /\ IF IsRunning(HandleOf(c))
       THEN /\ Goes(GuiThread, [frame[GuiThread] EXCEPT
                                  !.pc = IF c = "video" THEN "c_video_stop"
                                         ELSE "c_audio_stop"])
            /\ UNCHANGED ctl
       ELSE /\ Goes(GuiThread, [frame[GuiThread] EXCEPT !.pc = AfterStop(c),
                                                        !.ran = @ \cup {c}])
            /\ ctl' = IF ctl[c].is_silence_mode
                      THEN [ctl EXCEPT ![c].is_silence_mode = FALSE,
                                       ![c].current_source = NoSource]
                      ELSE ctl
    /\ UNCHANGED <<envvars, mvars, dgvars, pvars, files, available, last>>

\* success = self.process.stop() of the controller's stop()
CleanupStop(c, termRaises) ==
    /\ frame[GuiThread].op = "cleanup"
    /\ frame[GuiThread].pc = IF c = "video" THEN "c_video_stop" ELSE "c_audio_stop"
    /\ StopCall(GuiThread, HandleOf(c), termRaises)

\* process.stop() has returned: the record is cleared if it reported success
\* (video_manager.py:315-319, audio_manager.py:296-302)
CleanupStopped(c) ==
    /\ frame[GuiThread].op = "cleanup"
    /\ frame[GuiThread].pc = IF c = "video" THEN "c_video_stop" ELSE "c_audio_stop"
    /\ pc[GuiThread] = "done"
    /\ Cleared(GuiThread)
    /\ ctl' = IF ret[GuiThread] = "true"
              THEN [ctl EXCEPT ![c].current_source = NoSource] ELSE ctl
    /\ Goes(GuiThread, [frame[GuiThread] EXCEPT !.pc = AfterStop(c),
                                                !.ran = @ \cup {c}])
    /\ UNCHANGED <<hvars, osvars, rvars, todo, gvars, envvars, mvars, dgvars,
                   files, available, last>>

\* get_registry().stop_all() (line 1311)
CleanupSweep ==
    /\ frame[GuiThread].op = "cleanup"
    /\ frame[GuiThread].pc = "c_sweep"
    /\ StopAllBegin(GuiThread)

\* stop_all has returned
CleanupSwept ==
    /\ frame[GuiThread].op = "cleanup"
    /\ frame[GuiThread].pc = "c_sweep"
    /\ pc[GuiThread] = "done"
    /\ Cleared(GuiThread)
    /\ swept' = <<>>
    /\ lateStart' = FALSE
    /\ Goes(GuiThread, [frame[GuiThread] EXCEPT !.pc = "c_teardown",
                                                !.ran = @ \cup {"stop_all"}])
    /\ UNCHANGED <<hvars, osvars, rvars, todo, envvars, mvars, dgvars, svars>>

\* self.device_manager.teardown_all() (line 1315)
CleanupTeardown ==
    /\ frame[GuiThread].op = "cleanup"
    /\ frame[GuiThread].pc = "c_teardown"
    /\ pc[GuiThread] = "idle"
    /\ Goes(GuiThread, [IdleFrame EXCEPT !.pc = "v_clean", !.op = "teardown_all",
                                         !.ran = frame[GuiThread].ran,
                                         !.fresh = \A g \in Guards : lastres[g] = "none"])
    /\ UNCHANGED <<envvars, mvars, dgvars, pvars, svars>>

\* The window's callbacks call the controllers on the main thread
\* (gui/main_window.py:1046-1090, 1157-1201); no other thread touches the
\* handles.  cleanup() runs to its end and the application exits.
NextCleanup ==
    \/ \E h \in Handles, o \in {"ok", "notfound"} :
          AppRunning /\ StartLaunch(GuiThread, h, o)
    \/ StartVerify(GuiThread)
    \/ \E h \in Handles, b \in BOOLEAN : AppRunning /\ StopCall(GuiThread, h, b)
    \/ \E b \in BOOLEAN : StopWait(GuiThread, b)
    \/ StopKillWait(GuiThread)
    \/ \E h \in Handles : AppRunning /\ IsRunningCall(GuiThread, h)
    \/ \E h \in Handles : AppRunning /\ GetPidCall(GuiThread, h)
    \/ AppRunning /\ Return(GuiThread)
    \/ \E p \in Procs : ProcExit(p)
    \/ OnClosing
    \/ SignalHandler
    \/ \E c \in Controllers : CleanupCheck(c)
    \/ \E c \in Controllers, b \in BOOLEAN : CleanupStop(c, b)
    \/ \E c \in Controllers : CleanupStopped(c)
    \/ CleanupSweep
    \/ \E b \in BOOLEAN : SweepStep(GuiThread, b)
    \/ StopAllEnd(GuiThread)
    \/ CleanupSwept
    \/ CleanupTeardown
    \/ \E o \in {"ok", "timeout"} : VideoCleanupBegin(GuiThread, o)
    \/ \E o \in {"ok", "busy", "fail"} : VideoUnload(GuiThread, o)
    \/ \E o \in {"ok", "timeout"} : AudioCleanupBegin(GuiThread, o)
    \/ \E o \in {"ok", "nonzero", "timeout"}, b \in BOOLEAN : AudioUnload(GuiThread, o, b)
    \/ AudioCleaned(GuiThread)

\* the devices were set up before the streams could be started
\* (gui/main_window.py:1053-1055): the module and one sink are loaded
InitCleanup ==
    /\ InitProcesses(<<"VideoStream", "AudioStream">>)
    /\ missing = {}
    /\ modloaded = TRUE
    /\ devnode = TRUE
    /\ sinkIds = {1}
    /\ is_setup = [g \in Guards |-> TRUE]
    /\ module_id = 1
    /\ frame = [t \in Threads |-> IdleFrame]
    /\ lastres = [g \in Guards |-> "ok"]
    /\ lastcount = [g \in Guards |-> 1]
    /\ InitStreams({})

SpecCleanup == InitCleanup /\ [][NextCleanup]_vars

\* ======================= properties =======================
\* steps of thread t, recognised from outside the actions
\* t's call to o returns in this step
CallReturns(t, o) == pc[t] # "done" /\ pc'[t] = "done" /\ op'[t] = o
\* t enters o on handle h in this step
CallEnters(t, o, h) == pc[t] = "idle" /\ pc'[t] # "idle" /\ op'[t] = o /\ tgt'[t] = h
\* the sweep of t gets the result of stop() on h in this step
SweepGets(t, h) ==
    /\ op[t] = "stop_all"
    /\ Len(swept') = Len(swept) + 1
    /\ swept'[Len(swept')][1] = h
\* the OS still runs the process h holds, in the state after the step
AliveAfter(h) == proc'[h] # NoProc /\ os'[proc'[h]] = "alive"
\* h as a caller can see it is untouched by the step
Untouched(h) ==
    /\ state'[h] = state[h]
    /\ proc'[h] = proc[h]
    /\ pid'[h] = pid[h]
    /\ sig'[h] = sig[h]

\* C1: whenever stop() returns on a handle - to its caller or to the registry
\* sweep, with True or False, after a graceful, forced or unconfirmed
\* termination - the handle's state is STOPPED and is_running is false.
C1_StopEndsStopped ==
    [][\A t \in Threads, h \in Handles :
          ((CallReturns(t, "stop") /\ tgt'[t] = h) \/ SweepGets(t, h))
          => (state'[h] = STOPPED /\ ~(state'[h] = RUNNING /\ AliveAfter(h)))]_vars

\* a stop() that had to terminate a process has just returned False (kill
\* not confirmed, or the termination call raised)
C1_Witness ==
    \E t \in Threads :
        /\ pc[t] = "done" /\ op[t] = "stop" /\ ret[t] = "false"
        /\ entry[t] \in {RUNNING, STOPPING}
        /\ state[tgt[t]] = STOPPED

\* C2: start() on a handle whose state is RUNNING raises, launches no process
\* and leaves state, native handle and pid as they were.
C2_StartWhileRunningRaises ==
    [][\A t \in Threads, h \in Handles :
          (CallEnters(t, "start", h) /\ state[h] = RUNNING)
          => (/\ pc'[t] = "done"
              /\ ret'[t] = "raise"
              /\ Untouched(h)
              /\ os' = os)]_vars

\* a start() found the handle RUNNING - its process already gone - and raised
C2_Witness ==
    \E t \in Threads :
        /\ pc[t] = "done" /\ op[t] = "start" /\ ret[t] = "raise"
        /\ entry[t] = RUNNING
        /\ proc[tgt[t]] # NoProc /\ os[proc[tgt[t]]] = "dead"

\* C6: is_running answers true exactly when the state is RUNNING and the
\* native handle's process has not exited; so it is false in every other
\* state and once the process has exited on its own.
C6_IsRunningIffRunningAndAlive ==
    [][\A t \in Threads, h \in Handles :
          (CallReturns(t, "is_running") /\ tgt'[t] = h)
          => /\ ret'[t] \in {"true", "false"}
             /\ ret'[t] = "true" <=>
                   (state[h] = RUNNING /\ proc[h] # NoProc /\ os[proc[h]] = "alive")
             /\ state[h] \in {STOPPED, STARTING, STOPPING, ERROR} => ret'[t] = "false"]_vars

\* is_running has just answered false on a RUNNING handle whose process exited
C6_Witness ==
    \E t \in Threads :
        /\ pc[t] = "done" /\ op[t] = "is_running" /\ ret[t] = "false"
        /\ state[tgt[t]] = RUNNING
        /\ proc[tgt[t]] # NoProc /\ os[proc[tgt[t]]] = "dead"

\* C10: stop() on a STOPPED handle returns True at once, sends no signal and
\* leaves state, native handle and pid as they were; a second stop() in a
\* row therefore changes nothing.
C10_StopOfStoppedIsNoop ==
    [][\A t \in Threads, h \in Handles :
          /\ (CallEnters(t, "stop", h) /\ state[h] = STOPPED)
                => (pc'[t] = "done" /\ ret'[t] = "true" /\ Untouched(h) /\ os' = os)
          /\ (pc[t] = "sweep" /\ todo[t] # <<>> /\ Head(todo[t]) = h
              /\ state[h] = STOPPED /\ <<pc[t], todo[t]>>' # <<pc[t], todo[t]>>)
                => (SweepGets(t, h) /\ swept'[Len(swept')][2] = "true"
                    /\ Untouched(h) /\ os' = os)]_vars

\* a stop() has just returned True on a handle it found STOPPED, after an
\* earlier stop() of a launched process had brought it there
C10_Witness ==
    \E t \in Threads :
        /\ pc[t] = "done" /\ op[t] = "stop" /\ ret[t] = "true"
        /\ entry[t] = STOPPED
        /\ \E p \in Procs : os[p] # "unborn" /\ owner[p] = tgt[t]
\* handles the sweep has called stop() on so far
SweptHandles(sw) == {sw[i][1] : i \in 1..Len(sw)}
Registered == {processes[i] : i \in 1..Len(processes)}
\* get_running_count in the state after the step
RunningCountAfter ==
    Cardinality({h \in Registered' : state'[h] = RUNNING /\ AliveAfter(h)})

\* C3 (as stated): stop_all() calls stop() on every handle of its snapshot,
\* whatever the earlier stops reported, and when it returns
\* get_running_count() is 0.
C3_StopAllLeavesNoneRunning ==
    [][\A t \in Threads :
          CallReturns(t, "stop_all")
          => (SweptHandles(swept') = Registered /\ RunningCountAfter = 0)]_vars

\* C3 (amended): stop_all() calls stop() on every handle of its snapshot,
\* whatever the earlier stops reported, and when it returns
\* get_running_count() is 0 provided no start() entered a handle while the
\* sweep was running.
C3_StopAllLeavesNoneRunningUnlessRaced ==
    [][\A t \in Threads :
          CallReturns(t, "stop_all")
          => /\ SweptHandles(swept') = Registered
             /\ ~lateStart' => RunningCountAfter = 0]_vars

\* stop_all() has just returned from a sweep of both handles that no start()
\* raced, in which the first stop() reported failure
C3_Witness ==
    \E t \in Threads :
        /\ pc[t] = "done" /\ op[t] = "stop_all"
        /\ ~lateStart
        /\ Len(swept) = 2
        /\ swept[1][2] = "false"
        /\ RunningCount = 0

\* C4: while a start() is between launching its process and its liveness
\* check, no other start() or stop() begins on the same handle, and the
\* handle's state and native handle stay as that start() left them.
Settling(h) == {t \in Threads : pc[t] = "settle" /\ tgt[t] = h}
C4_TransitionsSerialized ==
    [][\A h \in Handles : \A t \in Settling(h) :
          /\ \A u \in Threads \ {t} :
                /\ ~CallEnters(u, "start", h)
                /\ ~CallEnters(u, "stop", h)
                /\ ~SweepGets(u, h)
                /\ ~(pc[u] = "sweep" /\ pc'[u] = "stop_wait" /\ Head(todo[u]) = h)
          /\ pc'[t] = "settle" => (state'[h] = state[h] /\ proc'[h] = proc[h])]_vars

\* C5: every process launched by a registered handle is either terminated or
\* still the native handle of the handle that launched it.  Stated for the
\* handles that hold a native handle: there the process held is the only
\* live process the handle has launched (a handle that stop() emptied
\* without confirming the kill is left aside).
C5_NoProcessEscapesItsHandle ==
    \A p \in Procs :
        (os[p] = "alive" /\ owner[p] \in Registered /\ proc[owner[p]] # NoProc)
            => proc[owner[p]] = p

\* C7: get_pid() returns a process id exactly when the state is RUNNING and
\* the process is alive, and None in every other state.
C7_PidIffRunningAndAlive ==
    [][\A t \in Threads, h \in Handles :
          (CallReturns(t, "get_pid") /\ tgt'[t] = h)
          => (ret'[t] = "value" <=>
                 (state[h] = RUNNING /\ proc[h] # NoProc /\ os[proc[h]] = "alive"))]_vars

\* C8: a handle whose state is STOPPED or ERROR holds no native handle.
C8_StoppedOrErrorHoldsNoHandle ==
    \A h \in Handles : state[h] \in {STOPPED, ERROR} => proc[h] = NoProc

\* C9: start() on a handle that is not RUNNING never raises; a failed launch
\* returns False with state ERROR and no pid; after the settle delay it
\* returns False with state ERROR and no pid if the launched process has
\* exited, and True with state RUNNING if it is still alive.
NoPidAfter(h) == ~AliveAfter(h) \/ pid'[h] = NoProc
C9_StartReportsOutcome ==
    [][\A t \in Threads, h \in Handles :
          (CallReturns(t, "start") /\ tgt'[t] = h /\ (pc[t] = "settle" \/ state[h] # RUNNING))
          => /\ ret'[t] \in {"true", "false"}
             /\ pc[t] = "idle"
                  => (ret'[t] = "false" /\ state'[h] = ERROR /\ NoPidAfter(h))
             /\ (pc[t] = "settle" /\ os[mine[t]] # "alive")
                  => (ret'[t] = "false" /\ state'[h] = ERROR /\ NoPidAfter(h))
             /\ (pc[t] = "settle" /\ os[mine[t]] = "alive")
                  => (ret'[t] = "true" /\ state'[h] = RUNNING)]_vars

\* the stop() of t on h ends in this step, and what it reports
StopEnds(t, h) == (CallReturns(t, "stop") /\ tgt'[t] = h) \/ SweepGets(t, h)
StopResult(t) == IF op[t] = "stop_all" THEN swept'[Len(swept')][2] ELSE ret'[t]

\* C11: stop() of a handle with a native process requests graceful
\* termination first; kill is sent only to a process that terminate was
\* sent to and that is still running when the graceful wait has timed out;
\* a process that has exited by then gets no kill.
C11_KillOnlyAfterGracefulTimeout ==
    [][\A h \in Handles :
          /\ (sig'[h] = "term" /\ sig[h] # "term") => sig[h] = "none"
          /\ (sig'[h] = "kill" /\ sig[h] # "kill")
                => /\ sig[h] = "term"
                   /\ proc[h] # NoProc /\ proc'[h] = proc[h]
                   /\ os[proc[h]] = "alive"
                   /\ \E t \in Threads : pc[t] = "stop_wait" /\ pc'[t] = "stop_kill"
          /\ \A t \in Threads :
                (pc[t] = "stop_wait" /\ CurH(t) = h /\ pc'[t] # "stop_wait"
                 /\ os[proc[h]] # "alive")
                => (sig'[h] # "kill" /\ StopEnds(t, h) /\ StopResult(t) = "true")]_vars

\* a stop() has sent kill to the process that outlived the graceful wait
C11_Witness ==
    \E t \in Threads :
        /\ pc[t] = "stop_kill" /\ op[t] = "stop"
        /\ sig[tgt[t]] = "kill"
        /\ proc[tgt[t]] # NoProc /\ os[proc[tgt[t]]] = "alive"

\* C12: stop() is fail-open: when the kill cannot be confirmed, or kill() or
\* terminate() raises, stop() still returns, reports False, and leaves the
\* handle STOPPED with its native handle and pid released (and its lock free).
C12_StopFailsOpen ==
    [][\A t \in Threads, h \in Handles :
          /\ ( \/ (pc[t] = "stop_kill" /\ CurH(t) = h /\ os[proc[h]] = "alive")
               \/ (pc[t] = "stop_wait" /\ CurH(t) = h /\ os[proc[h]] = "alive"
                   /\ pc'[t] \notin {"stop_wait", "stop_kill"})
               \/ (StopEnds(t, h) /\ pc[t] \in {"idle", "sweep"}
                   /\ state[h] # STOPPED /\ proc[h] # NoProc) )
              /\ pc'[t] # pc[t]
             => /\ StopEnds(t, h)
                /\ StopResult(t) = "false"
          /\ (StopEnds(t, h) /\ StopResult(t) = "false")
             => /\ state'[h] = STOPPED
                /\ proc'[h] = NoProc
                /\ pid'[h] = NoProc
                /\ lock'[h] = NoThread]_vars

\* a stop() has just returned False after a kill it could not confirm: the
\* handle is STOPPED and empty while the process it held is still running
C12_Witness ==
    \E t \in Threads :
        /\ pc[t] = "done" /\ op[t] = "stop" /\ ret[t] = "false"
        /\ entry[t] = STOPPING
        /\ state[tgt[t]] = STOPPED /\ proc[tgt[t]] = NoProc /\ pid[tgt[t]] = NoProc
        /\ \E p \in Procs : owner[p] = tgt[t] /\ os[p] = "alive"

\* C13: the registry holds each handle at most once; register of a handle
\* that is registered and unregister of one that is not leave the list as it
\* was; register(h) leaves h registered, unregister(h) leaves it unregistered,
\* and neither touches the other handles.
NoDuplicates(s) == \A i, j \in 1..Len(s) : i # j => s[i] # s[j]
C13_RegistryHoldsEachHandleOnce ==
    [][/\ NoDuplicates(processes')
       /\ \A t \in Threads, h \in Handles :
            /\ (CallReturns(t, "register") /\ tgt'[t] = h)
                  => /\ InList(processes, h) => processes' = processes
                     /\ Registered' = Registered \cup {h}
            /\ (CallReturns(t, "unregister") /\ tgt'[t] = h)
                  => /\ ~InList(processes, h) => processes' = processes
                     /\ Registered' = Registered \ {h}]_vars

\* register has just returned for a handle that was registered already, with
\* both handles in the list
C13_Witness ==
    \E t \in Threads :
        /\ pc[t] = "done" /\ op[t] = "register" /\ entry[t] = "true"
        /\ Len(processes) = 2 /\ InList(processes, tgt[t])

\* ---- device setup ----
\* t's DeviceManager call o ends in this step (it returns or raises)
DevEnds(t, o) == frame[t].pc # "done" /\ frame'[t].pc = "done" /\ frame'[t].op = o
\* t's call leaves position p in this step
DevLeaves(t, p) == frame[t].pc = p /\ frame'[t].pc # p
\* the flag setup_all returns for guard g
OkFlag(f, g) == IF g = "video" THEN f.video_ok ELSE f.audio_ok

\* C14: a Setup whose load reported success but whose probe does not find the
\* resource (no device node; sink listing without the sink, or no listing)
\* raises the setup error: nothing is marked as set up, and setup_all returns
\* False for that resource.
C14_FailedProbeFailsSetup ==
    [][\A t \in Threads :
          /\ (DevLeaves(t, "v_probe") /\ ~devnode)
                => /\ frame'[t].res["video"] = "verify"
                   /\ ~frame'[t].video_ok
                   /\ is_setup' = is_setup
          /\ (DevLeaves(t, "a_probe") /\ (frame'[t].rc # "ok" \/ sinkIds = {}))
                => /\ frame'[t].res["audio"] = "verify"
                   /\ ~frame'[t].audio_ok
                   /\ is_setup' = is_setup
          /\ DevEnds(t, "setup_all")
                => \A g \in Guards :
                      frame'[t].res[g] = "verify"
                      => /\ frame'[t].ret = "pair"
                         /\ ~OkFlag(frame'[t], g)
                         /\ frame'[t].ran \cap {"v_init", "v_mark", "a_mark"}
                               \subseteq (IF g = "video" THEN {"a_mark"} ELSE {"v_init", "v_mark"})]_vars

\* setup_all has just returned (False, False): both loads had reported
\* success, the module is loaded without its device node and the sink
\* listing did not come
C14_Witness ==
    \E t \in Threads :
        /\ frame[t].pc = "done" /\ frame[t].op = "setup_all" /\ frame[t].ret = "pair"
        /\ frame[t].res["video"] = "verify" /\ frame[t].res["audio"] = "verify"
        /\ ~frame[t].video_ok /\ ~frame[t].audio_ok
        /\ modloaded /\ ~devnode /\ sinkIds # {}

\* C15: two successful Setup calls in a row on a guard leave as many loaded
\* instances of its resource as the first one left.
C15_SetupIsIdempotent ==
    [][\A g \in Guards :
          (/\ lastres[g] = "ok"
           /\ lastres'[g] = "ok"
           /\ \E t \in Threads : frame[t].res[g] # "ok" /\ frame'[t].res[g] = "ok")
          => Instances(g)' = lastcount[g]]_vars

\* C16: a load request that fails (non-zero exit, timeout, tool not found)
\* raises the setup error; the probe, the initialization and the marking of
\* the guard do not run in that call, and setup_all returns False for it.
C16_LoadFailureAbortsSetup ==
    [][\A t \in Threads :
          /\ (DevLeaves(t, "v_load") /\ frame'[t].rc # "ok")
                => /\ frame'[t].res["video"] = "load"
                   /\ frame'[t].pc = "a_clean"
                   /\ is_setup' = is_setup
          /\ (DevLeaves(t, "a_load") /\ frame'[t].rc # "ok")
                => /\ frame'[t].res["audio"] = "load"
                   /\ frame'[t].pc = "done" /\ frame'[t].ret = "pair"
                   /\ is_setup' = is_setup
          /\ DevEnds(t, "setup_all")
                => /\ frame'[t].res["video"] = "load"
                      => (~frame'[t].video_ok
                          /\ frame'[t].ran \cap {"v_verify", "v_init", "v_mark"} = {})
                   /\ frame'[t].res["audio"] = "load"
                      => (~frame'[t].audio_ok
                          /\ frame'[t].ran \cap {"a_verify", "a_mark"} = {})]_vars

\* setup_all has just returned (False, False) after both load requests
\* failed, the audio one by timing out: only cleanup and load ran
C16_Witness ==
    \E t \in Threads :
        /\ frame[t].pc = "done" /\ frame[t].op = "setup_all" /\ frame[t].ret = "pair"
        /\ frame[t].res["video"] = "load" /\ frame[t].res["audio"] = "load"
        /\ frame[t].rc = "timeout"
        /\ frame[t].ran = {"v_cleanup", "v_load", "a_cleanup", "a_load"}
        /\ ~frame[t].video_ok /\ ~frame[t].audio_ok

\* C17: teardown_all always returns True, whatever the cleanup tools do; it
\* runs the cleanup of both guards and leaves both is_setup flags false.
C17_TeardownAlwaysSucceeds ==
    [][\A t \in Threads :
          DevEnds(t, "teardown_all")
          => /\ frame'[t].ret = "true"
             /\ {"v_cleanup", "a_cleanup"} \subseteq frame'[t].ran
             /\ \A g \in Guards : ~is_setup'[g]]_vars

\* C18: a Setup whose unload loop used up all its attempts on a busy module
\* does not report success for the video resource.
C18_ExhaustedRetriesFailSetup ==
    \A t \in Threads :
        (frame[t].pc = "done" /\ frame[t].op = "setup_all" /\ frame[t].exhausted)
        => (~frame[t].video_ok /\ frame[t].res["video"] # "ok")

\* C19: a guard whose last Setup failed with the setup error has is_setup
\* false, and get_status reports it so.
SetupFailed(g) == lastres[g] \in {"load", "verify"}
C19_FailedSetupLeavesNotSetup ==
    /\ \A g \in Guards : SetupFailed(g) => ~is_setup[g]
    /\ \A t \in Threads :
          (frame[t].pc = "done" /\ frame[t].op = "get_status")
          => /\ SetupFailed("video") => ~frame[t].status.video_setup
             /\ SetupFailed("audio") => ~frame[t].status.audio_setup

\* C20: setup_all always runs the Setup of both guards and returns the pair
\* of flags; on a fresh DeviceManager where pactl alone is missing and the
\* other tools work, the pair is (True, False) and the flags get_status
\* reports are video_setup true, audio_setup false.
C20_SetupAllAttemptsBoth ==
    [][\A t \in Threads :
          DevEnds(t, "setup_all")
          => /\ frame'[t].ret = "pair"
             /\ {"v_cleanup", "a_cleanup"} \subseteq frame'[t].ran
             /\ (frame'[t].fresh /\ missing = {"pactl"} /\ frame'[t].clean)
                   => /\ frame'[t].video_ok /\ ~frame'[t].audio_ok
                      /\ is_setup' = [g \in Guards |-> g = "video"]]_vars

\* thread t is inside Setup or Teardown of guard g: it has run the first step
\* of the guard's cleanup and the guard's call has not returned
InGuard(t, g) ==
    IF g = "video"
    THEN frame[t].pc \in {"v_unload", "v_load", "v_probe", "v_init"}
    ELSE frame[t].pc \in {"a_unload", "a_load", "a_probe"}

\* C21: for each guard at most one Setup or Teardown executes at any time,
\* also when shutdown cleanup calls teardown_all while a background thread is
\* inside setup_all on the same DeviceManager.
C21_GuardMutualExclusion ==
    \A g \in Guards : ~(InGuard(SetupThread, g) /\ InGuard(GuiThread, g))


\* steps of the stream controllers, recognised from outside the actions
\* controller c's call to o returns in this step
StreamCall(c, o) == last.op = NoOp /\ last'.c = c /\ last'.op = o
\* the name is in no catalog of controller c
Unknown(c, s) ==
    IF c = "video" THEN s \notin {"Test Pattern", "Surfing HD"}
    ELSE s \notin {"Meeting Voice", "Simple Tone", "Silence"}
\* a stream is active for controller c: its process is confirmed running,
\* or audio is in silence mode
Active(c) ==
    \/ ctl[c].state = RUNNING /\ ctl[c].proc = "alive"
    \/ c = "audio" /\ ctl[c].is_silence_mode

\* C22 (as stated): start with a source name that is not in the catalog
\* fails with the unknown-source error and starts no process; the managed
\* process state and the active-source record are unchanged.
C22_UnknownSourceFails ==
    [][\A c \in Controllers :
          StreamCall(c, "start") /\ Unknown(c, last'.source)
          => /\ last'.ret = "unknown_source"
             /\ last'.cmds = <<>>
             /\ ctl'[c] = ctl[c]]_vars

\* C22 (amended): start with a source name that is not in the catalog always
\* fails, starts no process and changes neither the managed process state nor
\* the active-source record; the error is the unknown-source error when no
\* stream is active for the controller, and the already-running error when
\* one is.
C22_UnknownSourceFailsWhenIdle ==
    [][\A c \in Controllers :
          StreamCall(c, "start") /\ Unknown(c, last'.source)
          => /\ last'.ret = IF Active(c) THEN "already_running" ELSE "unknown_source"
             /\ last'.cmds = <<>>
             /\ last'.ran = {}
             /\ ctl'[c] = ctl[c]
             /\ files' = files]_vars

\* C22 witness: a start of an unknown name on an idle video controller has
\* been refused with the unknown-source error
C22_Witness ==
    /\ last.c = "video" /\ last.op = "start" /\ last.source = "Nope"
    /\ last.ret = "unknown_source"
    /\ ~Active("video")


\* C23: start fails with the already-running error whenever a stream is
\* already active for the controller (its process confirmed running, or
\* silence mode for audio); no new process is launched and the active-source
\* record, like everything else the controller holds, is unchanged.
C23_StartWhileActiveFails ==
    [][\A c \in Controllers :
          StreamCall(c, "start") /\ Active(c)
          => /\ last'.ret = "already_running"
             /\ last'.cmds = <<>>
             /\ last'.ran = {}
             /\ ctl'[c] = ctl[c]]_vars

\* C23 witness: a start was refused as already running while audio is in
\* silence mode, and the record still names the silence source
C23_Witness ==
    /\ last.c = "audio" /\ last.op = "start"
    /\ last.ret = "already_running"
    /\ ctl["audio"].is_silence_mode
    /\ ctl["audio"].current_source = "Silence"


\* C24: VideoManager.start of a download source whose backing file is absent
\* and whose download fails does not raise but starts the built-in fallback
\* source, and the recorded active source (what get_status reports as source)
\* is then the fallback, not the requested name.  Stated for the starts that
\* return: the handle was not RUNNING, the file is missing before and after
\* the call, and the call returned True.
C24_FailedDownloadRecordsFallback ==
    [][(/\ StreamCall("video", "start")
        /\ last'.source = "Surfing HD"
        /\ "surfing.mp4" \notin files /\ "surfing.mp4" \notin files'
        /\ ctl["video"].state # RUNNING
        /\ last'.ret = "true")
       => /\ Head(last'.cmds) = "fallback"
          /\ ctl'["video"].current_source = FALLBACK
          /\ ctl'["video"].current_source # last'.source]_vars


\* C25: AudioManager.start of a file-backed source whose backing file is
\* absent and whose on-demand generation fails (the file is still missing
\* afterwards) does not raise: it falls back to silence, so the controller
\* ends active with the fallback recorded.
C25_FailedGenerationFallsBackToSilence ==
    [][\A src \in {"Meeting Voice", "Simple Tone"} :
          (/\ StreamCall("audio", "start")
           /\ last'.source = src
           /\ ~Active("audio")
           /\ AUDIO_LIBRARY[src].file \notin files
           /\ AUDIO_LIBRARY[src].file \notin files')
          => /\ last'.ret = "true"
             /\ ctl'["audio"].is_silence_mode
             /\ ctl'["audio"].current_source = "Silence"]_vars


\* C26: after stop() returns, for video and audio alike and whether
\* ManagedProcess.stop reported success or failure, the stream is not active
\* and the active-source record is None; for audio in silence mode stop
\* exits silence mode without touching any process.
C26_StopClearsRecord ==
    [][\A c \in Controllers :
          StreamCall(c, "stop")
          => /\ ~(ctl'[c].state = RUNNING /\ ctl'[c].proc = "alive")
             /\ ~ctl'[c].is_silence_mode
             /\ ctl'[c].current_source = NoSource
             /\ ctl[c].is_silence_mode
                => /\ last'.stopped = "none"
                   /\ ctl'[c].state = ctl[c].state
                   /\ ctl'[c].proc = ctl[c].proc]_vars


\* C27 (as stated): restart() with no explicit source performs stop then
\* start with the previously active source name, so a restart() that
\* succeeds leaves the active source as it was; with no recorded active
\* source it fails without starting anything.
C27_RestartKeepsSource ==
    [][\A c \in Controllers :
          StreamCall(c, "restart") /\ last'.source = NoSource
          => IF ctl[c].current_source = NoSource
             THEN /\ last'.ret = "no_source"
                  /\ last'.cmds = <<>>
                  /\ ctl'[c] = ctl[c]
             ELSE /\ last'.asked = ctl[c].current_source
                  /\ last'.ret = "true"
                     => ctl'[c].current_source = ctl[c].current_source]_vars

\* C27 (amended): restart() with no explicit source stops and then calls
\* start with the previously active source name; when that start succeeds
\* the active source is again that name, unless start substituted its
\* fallback after the source's own command failed to run, in which case the
\* fallback is recorded.  With no recorded active source restart() fails
\* without stopping or starting anything.
C27_RestartReusesSource ==
    [][\A c \in Controllers :
          StreamCall(c, "restart") /\ last'.source = NoSource
          => IF ctl[c].current_source = NoSource
             THEN /\ last'.ret = "no_source"
                  /\ last'.cmds = <<>>
                  /\ last'.ran = {}
                  /\ last'.stopped = "none"
                  /\ ctl'[c] = ctl[c]
             ELSE /\ last'.asked = ctl[c].current_source
                  /\ last'.ret = "true"
                     => ctl'[c].current_source =
                           IF Len(last'.cmds) = 2 THEN FALLBACK
                           ELSE ctl[c].current_source]_vars

\* C27 witness: restart() of a running test pattern stopped it, started the
\* test pattern again and records it
C27_Witness ==
    /\ last.c = "video" /\ last.op = "restart" /\ last.source = NoSource
    /\ last.asked = "Test Pattern"
    /\ last.stopped = "true" /\ last.ret = "true"
    /\ last.cmds = <<"test_pattern">>
    /\ ctl["video"].current_source = "Test Pattern"


\* the TTSManager's call to o returns in this step
TtsCall(o) == last.op = NoOp /\ last'.c = "tts" /\ last'.op = o

\* C28: synthesize with zero available backends fails without invoking any
\* external synthesis command and without creating the output artifact.
C28_NoBackendNoSynthesis ==
    [][TtsCall("synthesize") /\ available' = {}
       => /\ last'.ret = "false"
          /\ last'.ran = {}
          /\ files' = files
          /\ "meeting_voice.temp.wav" \notin files']_vars

\* C28 witness: a synthesize call has failed with no backend available
C28_Witness ==
    /\ last.c = "tts" /\ last.op = "synthesize"
    /\ available = {}
    /\ last.ret = "false"

\* the preference list as the claim gives it, and a backend's place in it
ClaimedPreference == <<"flite", "pico2wave", "espeak-ng", "festival", "espeak">>
Place(e) == CHOOSE i \in 1..Len(ClaimedPreference) : ClaimedPreference[i] = e

\* C29: for every subset of backends that probe as available,
\* get_best_engine returns the available backend that comes first in the
\* preference list (flite, pico2wave, espeak-ng, festival, espeak), and None
\* exactly when the subset is empty; an unavailable backend is never returned.
C29_BestEngineIsFirstAvailable ==
    [][TtsCall("get_best_engine")
       => /\ available' \in SUBSET Engines
          /\ (last'.ret = NoEngine) <=> (available' = {})
          /\ last'.ret # NoEngine
             => /\ last'.ret \in available'
                /\ \A e \in available' : Place(last'.ret) <= Place(e)]_vars

\* C29 witness: with flite and pico2wave missing and espeak-ng, festival and
\* espeak available, get_best_engine has returned espeak-ng
C29_Witness ==
    /\ last.c = "tts" /\ last.op = "get_best_engine"
    /\ available = {"espeak-ng", "festival", "espeak"}
    /\ last.ret = "espeak-ng"


\* C30: when the enhancement step fails (non-zero exit, timeout or other
\* error) the unmodified input is copied through to the output path, so the
\* artifact is not lost, and the outcome is degraded rather than fatal:
\* speech generation does not report failure and the audio start that
\* triggered the generation goes on to stream the file.
C30_FailedEnhancementIsNotFatal ==
    [][StreamCall("audio", "start") /\ last'.enh = "failed"
       => /\ AUDIO_LIBRARY[last'.source].file \in files'
          /\ last'.ret # "generate_failed"
          /\ last'.cmds = <<"file">>]_vars


\* C31: the unload loop of the video cleanup makes at most
\* MAX_CLEANUP_RETRIES attempts: each turn is one attempt, the loop is left
\* at the first successful unload and at any failure that is not "in use",
\* and it goes round again only after an "in use" failure with attempts left.
C31_UnloadLoopIsBounded ==
    [][\A t \in Threads :
          (frame[t].pc = "v_unload" /\ frame'[t] # frame[t])
          => /\ frame'[t].attempt = frame[t].attempt + 1
             /\ frame'[t].attempt <= MAX_CLEANUP_RETRIES
             /\ (frame'[t].pc = "v_unload")
                <=> (frame'[t].rc = "busy" /\ frame'[t].attempt < MAX_CLEANUP_RETRIES)
             /\ frame'[t].rc = "ok" => ~modloaded']_vars

\* C31 witness: a setup_all has got past the video cleanup after the
\* unload was refused as "in use" MAX_CLEANUP_RETRIES times
C31_Witness ==
    \E t \in Threads :
        /\ frame[t].op = "setup_all"
        /\ frame[t].pc = "v_load"
        /\ frame[t].exhausted
        /\ frame[t].attempt = MAX_CLEANUP_RETRIES
        /\ frame[t].rc = "busy"
        /\ modloaded


\* thread t's call runs phase ph in this step
Runs(t, ph) == ph \in frame'[t].ran /\ ph \notin frame[t].ran

\* C32: within every Setup call the phases come in the order cleanup, load,
\* verify (then the optional initialization for video): the load request is
\* issued only when the cleanup phase has finished, the probe only after a
\* load that succeeded, and is_setup becomes true only in a call whose load
\* succeeded and whose probe found the resource.
C32_SetupPhasesInOrder ==
    [][/\ \A t \in Threads :
            /\ Runs(t, "v_load")
                  => /\ "v_cleanup" \in frame[t].ran
                     /\ frame[t].pc = "v_load"
            /\ Runs(t, "v_verify")
                  => /\ "v_load" \in frame[t].ran
                     /\ frame[t].rc = "ok"
            /\ Runs(t, "v_init")
                  => /\ "v_verify" \in frame[t].ran
                     /\ devnode
            /\ Runs(t, "v_mark")
                  => /\ {"v_cleanup", "v_load", "v_verify"} \subseteq frame[t].ran
                     /\ devnode
                     /\ is_setup'["video"]
            /\ Runs(t, "a_load")
                  => /\ "a_cleanup" \in frame[t].ran
                     /\ frame[t].ids = <<>>
            /\ Runs(t, "a_verify")
                  => /\ "a_load" \in frame[t].ran
                     /\ frame[t].rc = "ok"
            /\ Runs(t, "a_mark")
                  => /\ {"a_cleanup", "a_load"} \subseteq frame[t].ran
                     /\ "a_verify" \in frame'[t].ran
                     /\ frame'[t].rc = "ok" /\ sinkIds # {}
                     /\ is_setup'["audio"]
       /\ (is_setup'["video"] /\ ~is_setup["video"])
             => \E t \in Threads : Runs(t, "v_mark")
       /\ (is_setup'["audio"] /\ ~is_setup["audio"])
             => \E t \in Threads : Runs(t, "a_mark")]_vars

\* C32 witness: a setup_all has returned (True, True) after running every
\* phase of both guards
C32_Witness ==
    \E t \in Threads :
        /\ frame[t].pc = "done" /\ frame[t].op = "setup_all"
        /\ frame[t].video_ok /\ frame[t].audio_ok
        /\ frame[t].ran = {"v_cleanup", "v_load", "v_verify", "v_init", "v_mark",
                           "a_cleanup", "a_load", "a_verify", "a_mark"}
        /\ is_setup["video"] /\ is_setup["audio"]
        /\ devnode /\ sinkIds # {}


\* C33: a failure of the video guard's optional initialization (setting the
\* permissions or the format fails, times out, or the tool is absent) never
\* makes Setup fail: once load and verification succeeded, the call marks the
\* guard as set up and setup_all reports True for video, whatever the
\* initialization did.
C33_InitFailureIsNotFatal ==
    [][\A t \in Threads :
          /\ DevLeaves(t, "v_init")
                => /\ is_setup'["video"]
                   /\ frame'[t].video_ok
                   /\ frame'[t].res["video"] = "ok"
                   /\ frame'[t].pc = "a_clean"
                   /\ {"v_init", "v_mark"} \subseteq frame'[t].ran
          /\ (DevEnds(t, "setup_all") /\ "v_init" \in frame'[t].ran)
                => frame'[t].video_ok]_vars

\* C33 witness: the format tool was absent (and, every earlier tool having
\* worked, nothing else went wrong), and the video guard is set up
C33_Witness ==
    \E t \in Threads :
        /\ frame[t].op = "setup_all" /\ frame[t].pc = "a_clean"
        /\ frame[t].rc = "notfound"
        /\ ~frame[t].clean
        /\ "v_mark" \in frame[t].ran
        /\ frame[t].video_ok
        /\ is_setup["video"]


\* C34: a VideoManager.start that gets as far as launching its primary
\* command (no stream active, a catalogued source, a handle that is not
\* RUNNING) either ends with the primary running and the requested source
\* recorded, or - the primary did not launch or died within the settle
\* delay - has launched the fallback command: if the fallback runs, start
\* returns True and the record is the fallback marker, not the requested
\* source; if the fallback fails as well, start raises and no stream is
\* active.
C34_FallbackAfterFailedPrimary ==
    [][(/\ StreamCall("video", "start")
        /\ ~Unknown("video", last'.source)
        /\ ctl["video"].state # RUNNING)
       => \/ /\ Len(last'.cmds) = 1
             /\ last'.ret = "true"
             /\ ctl'["video"].current_source = last'.source
             /\ ctl'["video"].state = RUNNING /\ ctl'["video"].proc = "alive"
          \/ /\ Len(last'.cmds) = 2 /\ last'.cmds[2] = "fallback"
             /\ last'.ret = "true"
             /\ ctl'["video"].current_source = "Fallback (Blue Screen)"
             /\ ctl'["video"].current_source # last'.source
             /\ ctl'["video"].state = RUNNING /\ ctl'["video"].proc = "alive"
          \/ /\ Len(last'.cmds) = 2 /\ last'.cmds[2] = "fallback"
             /\ last'.ret = "start_failed"
             /\ ctl'["video"].state = ERROR
             /\ ctl'["video"].current_source = ctl["video"].current_source]_vars

\* C34 witness: the test pattern did not come up, the fallback did, and the
\* record names the fallback
C34_Witness ==
    /\ last.c = "video" /\ last.op = "start" /\ last.source = "Test Pattern"
    /\ last.cmds = <<"test_pattern", "fallback">>
    /\ last.ret = "true"
    /\ ctl["video"].state = RUNNING /\ ctl["video"].proc = "alive"
    /\ ctl["video"].current_source = "Fallback (Blue Screen)"


\* controller c's process has exited by itself: the handle still says
\* RUNNING, is_running is false
Stale(c) ==
    /\ ctl[c].state = RUNNING /\ ctl[c].proc = "dead"
    /\ ~ctl[c].is_silence_mode

\* C36: a stream controller is recoverable after its process exits on its
\* own: with the handle RUNNING and the process dead, a start or a restart
\* with a catalogued source does not fail at the handle before any command
\* is launched, and a stop leaves a handle that start accepts.
C36_RecoverableAfterExit ==
    [][\A c \in Controllers :
          /\ (/\ Stale(c)
              /\ StreamCall(c, "start") \/ StreamCall(c, "restart")
              /\ ~Unknown(c, IF last'.op = "start" THEN last'.source ELSE last'.asked))
                => ~(last'.ret = "start_failed" /\ last'.cmds = <<>>)
          /\ (Stale(c) /\ StreamCall(c, "stop"))
                => ctl'[c].state # RUNNING]_vars


\* C37: in every reachable state the recorded active source of a controller
\* is None or a key of the controller's catalog.
C37_RecordIsInCatalog ==
    \A c \in Controllers :
        ctl[c].current_source = NoSource \/ ~Unknown(c, ctl[c].current_source)


\* C38: between operations a controller's status is consistent: the stream
\* is active (is_running) if and only if the active-source record is not
\* None.
C38_ActiveIffRecorded ==
    \A c \in Controllers :
        StreamQuiet => (Active(c) <=> ctl[c].current_source # NoSource)


\* ---- shutdown ----
\* a resource of the devices is released in this step: the kernel module is
\* unloaded or a sink goes
Releases == (modloaded /\ ~modloaded') \/ (sinkIds' # sinkIds /\ sinkIds' \subseteq sinkIds)

CleanupBlocked ==
    /\ frame[GuiThread].op = "cleanup"
    /\ \/ /\ frame[GuiThread].pc \in {"c_video", "c_video_stop"}
          /\ pc[GuiThread] = "idle"
          /\ lock["VideoStream"] # NoThread
       \/ /\ frame[GuiThread].pc \in {"c_audio", "c_audio_stop"}
          /\ pc[GuiThread] = "idle"
          /\ lock["AudioStream"] # NoThread
       \/ /\ frame[GuiThread].pc = "c_sweep"
          /\ pc[GuiThread] = "idle"
          /\ regLock # NoThread
       \/ /\ frame[GuiThread].pc = "c_sweep"
          /\ pc[GuiThread] = "sweep"
          /\ todo[GuiThread] # <<>>
          /\ lock[Head(todo[GuiThread])] # NoThread

\* C39: the cleanup run from the signal handler on the main thread never
\* blocks on a ManagedProcess lock (or the registry lock) that the main
\* thread itself holds in the call the signal interrupted.
C39_SignalCleanupNeverBlocks ==
    "signal" \in frame[GuiThread].ran => ~CleanupBlocked


\* ---- lock order ----
\* the handle thread u's stop() is working on, after the step
CurHAfter(u) == IF op'[u] = "stop_all" THEN Head(todo'[u]) ELSE tgt'[u]

====
